---- MODULE Spec2Model ----
(***************************************************************************)
(* x402 payment authorization engine.                                      *)
(*                                                                         *)
(* Provider side: packages/fast-x402 (X402Provider, X402Middleware,        *)
(* verification.py).  Client side: packages/x402-langchain (X402Client).   *)
(*                                                                         *)
(* The provider runs on one asyncio event loop: code between two awaits    *)
(* that really suspend is one atomic step, and request handlers interleave *)
(* only at such awaits.  Each action below is one such step.               *)
(***************************************************************************)
EXTENDS Integers, Sequences, FiniteSets, TLC

\* ------------------------------------------------------------------ bounds
\* Number of verify_payment invocations explored.
MaxCalls == 3
\* Number of 402 responses (issued requirements) explored.
MaxIssued == 2
\* Last clock reading explored (seconds).
MaxTime == 301
\* Number of fetch_with_payment invocations explored.
MaxFetches == 3
\* Last client clock reading explored (seconds).
MaxClientTime == 86460
\* Number of requests served by the providers of src/main.py explored.
MaxMainRequests == 3
\* Number of RateLimiter.is_allowed calls explored.
MaxLimiterCalls == 4
\* Number of X402Agent.fetch invocations explored.
MaxAgentFetches == 4
\* Last calendar day explored, counted from the agent's construction.
MaxDays == 2

\* Concurrent request handlers on the provider's event loop.  Handlers are
\* anonymous coroutines: a new request takes the free one of lowest rank.
Tasks == {"t1", "t2"}
TaskRank(t) == IF t = "t1" THEN 1 ELSE 2
\* Clock advances explored: to the end of a requirement's lifetime, and
\* just past it.
TickSteps == {300, 301}
\* Concurrent fetch_with_payment calls of one client (asyncio.gather in
\* batch_pay_and_fetch); a new call takes the free slot of lowest rank.
Fetches == {"f1", "f2"}
FetchRank(f) == IF f = "f1" THEN 1 ELSE 2
\* Requirement amounts the client meets, in cents (float(requirement.amount)).
AmountChoices == {50, 60}

\* ------------------------------------------------------- program constants
\* provider.py:106  expires_at = int(time.time()) + 300
REQUIREMENT_LIFETIME == 300
\* provider.py:286  await asyncio.sleep(60)
CLEANUP_INTERVAL == 60
\* main.py:100  self._payment_cache_ttl = 3600
PAYMENT_CACHE_TTL == 3600
\* models.py:66  chain_id: int = 8453
BASE_CHAIN_ID == 8453
\* provider.py:289  len(self.payment_cache) > 10000, scaled down 5000:1 so
\* that the model checker can fill the cache.
CACHE_MAX_ENTRIES == 2
\* provider.py:291  keys()[:5000], scaled down 5000:1 likewise.
CACHE_EVICT_COUNT == 1
\* client.py:197  current_time - self.last_hour_reset > 3600
HOUR_SECONDS == 3600
\* client.py:200  current_time - self.last_day_reset > 86400
DAY_SECONDS == 86400
\* provider.py:105  secrets.token_hex(32)
NONCE_BYTES == 32
\* main.py:299  int(time.time() * 1000000)
MICROSECONDS == 1000000
\* src/main.py: FastX402._payment_cache_ttl, and the hour of
\* X402Provider._clean_payment_cache.
MAIN_PAYMENT_CACHE_TTL == 3600
\* FacilitatorConfig: timeout, cache_ttl; the sleep of wait_for_payment.
FACILITATOR_TIMEOUT == 30
FACILITATOR_CACHE_TTL == 300
POLL_INTERVAL == 1
\* EnhancedX402Client._auto_fund_threshold, in cents.
AUTO_FUND_THRESHOLD == 1000
\* verification.py:103  "mwei": 10^6 minor units per token.  Amount strings
\* are modelled by their value in tenths of a minor unit, so a string may
\* carry one digit more than the token's six decimals.
AMOUNT_SUBUNITS == 10

\* ------------------------------------------------------------ client inputs
\* Client clock readings explored: construction, five minutes later, an
\* hour, an hour and a minute, a day, a day and a minute.
ClientTimes ==
  {0, 300, HOUR_SECONDS, HOUR_SECONDS + 60, DAY_SECONDS, DAY_SECONDS + 60}
\* max_amount=None of fetch_with_payment.
NoMax == 0 - 1
\* max_amount arguments explored, in cents: None, 0, 0.55.
MaxAmountChoices == {NoMax, 0, 55}
\* Domains of the URLs fetched.
Domains == {"api.example", "blocked.example", "other.example"}
\* config.allowed_domains when an allow list is configured, and
\* config.blocked_domains.
AllowedDomains == {"api.example"}
BlockedDomains == {"blocked.example"}
\* Configurations of the client explored: auto_approve, the kind of
\* approval_callback (none, a plain function, a coroutine function, a
\* coroutine function whose await never completes), whether
\* allowed_domains is set, and spending_limits in cents: per_request at its
\* default 1.0, per_hour 1.00, per_day 1.50.
DefaultClientConfig ==
  [auto_approve |-> FALSE, approval_callback |-> "none", allow_list |-> FALSE,
   spending_limits |-> [per_request |-> 100, per_hour |-> 100, per_day |-> 150]]
ClientConfigs ==
  {DefaultClientConfig,
   [DefaultClientConfig EXCEPT !.auto_approve = TRUE],
   [DefaultClientConfig EXCEPT !.allow_list = TRUE],
   [DefaultClientConfig EXCEPT !.approval_callback = "sync"],
   [DefaultClientConfig EXCEPT !.approval_callback = "async"],
   [DefaultClientConfig EXCEPT !.approval_callback = "stalled"]}
\* The configuration of the EnhancedX402Client explored: auto_approve on,
\* per_request 6.00, per_hour 10.00, per_day 15.00, and approval rules set
\* (set_approval_rules) to approve every amount within per_request.
EnhancedConfig ==
  [DefaultClientConfig EXCEPT
     !.auto_approve = TRUE,
     !.spending_limits =
        [per_request |-> 600, per_hour |-> 1000, per_day |-> 1500]]

\* --------------------------------------------------------------- variables
\* X402Provider and the handlers of X402Middleware.
VARIABLES
  cfg,             \* X402Config: cache_enabled, custom_validation
  now,             \* time.time(), seconds
  payment_cache,   \* X402Provider.payment_cache, in insertion order
  analytics_data,  \* X402Provider.analytics_data
  tx_ctr,          \* transaction hashes drawn from secrets.token_hex so far
  issued,          \* requirements sent in 402 responses, with their path
  task,            \* the request handlers: position and locals
  last,            \* the verify_payment call that ended last, and its outcome
  accepted,        \* payments for which verify_payment has returned valid
  calls,           \* verify_payment invocations so far
  last_cleanup,    \* clock reading when _cache_cleanup_task last woke
  response         \* the HTTP response dispatch is about to return

provider_vars ==
  <<cfg, now, payment_cache, analytics_data, tx_ctr, issued, task,
    last, accepted, calls, last_cleanup, response>>

\* verify_payment_requirements applied to one input.
VARIABLES
  check            \* the arguments of one call and, once made, its outcome

\* X402Client and its fetch_with_payment calls.
VARIABLES
  ccfg,            \* X402Config of the client: approval settings
  cnow,            \* time.time() on the client, seconds
  spent_today,     \* X402Client.spent_today, in cents
  spent_hour,      \* X402Client.spent_hour, in cents
  last_hour_reset, \* X402Client.last_hour_reset
  last_day_reset,  \* X402Client.last_day_reset
  fetch,           \* the fetch_with_payment calls: position and locals
  fetches          \* fetch_with_payment invocations so far

client_vars ==
  <<ccfg, cnow, spent_today, spent_hour, last_hour_reset, last_day_reset,
    fetch, fetches>>

\* X402Agent (src/agent.py), the synchronous agent.
VARIABLES
  acfg,            \* PaymentConfig of the agent: auto_approve
  today,           \* time.strftime("%Y-%m-%d"), as a day number
  daily_spend,     \* X402Agent._daily_spend
  last_reset,      \* X402Agent._last_reset
  agent_last,      \* the fetch call that ended last, and its result
  agent_fetches    \* fetch invocations so far

agent_vars ==
  <<acfg, today, daily_spend, last_reset, agent_last, agent_fetches>>

\* The wire formats applied to one input.
VARIABLES
  wire             \* one exchange or issuance and, once made, its outcome

\* The parts of the SDK beside the fast_x402 provider and the two clients.
VARIABLES
  main,            \* src/main.py: FastX402 and X402Provider, their caches
  limiter,         \* security.RateLimiter: its requests and the calls made
  poll,            \* FacilitatorClient: its cache and one wait_for_payment
  batch            \* EnhancedX402Client.batch_pay_and_fetch: one call of it

ext_vars == <<main, limiter, poll, batch>>

vars == <<provider_vars, check, client_vars, agent_vars, wire, ext_vars>>

\* config.spending_limits of the client.
SpendingLimits == ccfg.spending_limits

\* ---------------------------------------------------------------- addresses
\* An address string: the account it names and the letter case it is written
\* in ("mixed" is the checksummed form, "lower" the all-lowercase form).
Addr(id) == [id |-> id, cs |-> "mixed"]

\* str.lower() on an address string.
Lower(a) == [a EXCEPT !.cs = "lower"]

\* config.wallet_address
ProviderWallet == Addr("provider")
OtherWallet == Addr("other")
\* config.accepted_tokens[0]
USDC == Addr("usdc")
OtherToken == Addr("dai")
\* RouteConfig.token = None
NoToken == [id |-> "none", cs |-> "lower"]

\* Payer keys; Account.address of key k is Addr(k).
Payers == {"payer1", "payer2"}

\* ------------------------------------------------------------------ nonces
\* "0x" + secrets.token_hex(nbytes): the prefix, 2 * nbytes hexadecimal
\* digits, and the random value drawn, named by the number `draw`.
TokenHex(nbytes, draw) ==
  [prefix |-> "0x", hex_digits |-> 2 * nbytes, draw |-> draw]

\* A nonce of the provider's format holding the value `draw`.
Nonce(draw) == TokenHex(NONCE_BYTES, draw)

\* len(nonce)
NonceLen(nonce) == Len(nonce.prefix) + nonce.hex_digits

\* ------------------------------------------------------------------ routes
\* X402Middleware.routes after _normalize_routes: path -> RouteConfig.
\* "/paid": 0.0001 token (100 minor units), exact.
\* "/custom": 0.0001005 token, upto (one digit below the minor unit).
Paths == {"/paid", "/custom"}

Routes ==
  [p \in Paths |->
     IF p = "/paid"
     THEN [amount |-> 1000, token |-> NoToken, scheme |-> "exact"]
     ELSE [amount |-> 1005, token |-> NoToken, scheme |-> "upto"]]

\* Web3.to_wei(float(required_amount), "mwei"): the amount in minor units,
\* digits below the minor unit dropped (int(...) of the Decimal product).
ToWei(amount) == amount \div AMOUNT_SUBUNITS

\* ------------------------------------------------------ EIP-712 signatures
\* The typed message of verify_eip712_signature / _create_payment_authorization:
\* domain {name, version, chainId, verifyingContract} and message
\* {from, to, value, validBefore, nonce}.  Fields of type address are
\* encoded as 20 bytes, so their letter case does not reach the message.
TypedMessage(f) ==
  [name |-> "USDC", version |-> "2",
   chainId |-> f.chain_id, verifyingContract |-> Lower(f.token),
   from |-> Lower(f.from), to |-> Lower(f.to), value |-> f.value,
   validBefore |-> f.valid_before, nonce |-> f.nonce]

\* Account.sign_message: a signature binds the signing key and the message.
SignMessage(k, m) == [signer |-> k, msg |-> m]

\* A signature string from which no public key can be recovered ("0x00..00").
BadSignature(m) == [signer |-> "unrecoverable", msg |-> m]

\* Account.recover_message: the signer's address when the signature was made
\* over this very message; over any other message recovery yields the
\* address of an unrelated key; an unrecoverable signature raises.
RecoverMessage(m, sig) ==
  IF sig.signer = "unrecoverable" THEN Addr("raise")
  ELSE IF sig.msg = m THEN Addr(sig.signer)
  ELSE Addr("unrelated")

\* verify_eip712_signature: "true", "false", or "raise" (InvalidSignatureError
\* raised from the except branch).
verify_eip712_signature(p) ==
  LET recovered == RecoverMessage(TypedMessage(p), p.signature)
  IN  IF recovered = Addr("raise") THEN "raise"
      ELSE IF Lower(recovered) = Lower(p.from) THEN "true" ELSE "false"

\* ------------------------------------------------------------ verification
\* Outcome of a verification: a PaymentVerification (valid) or the exception
\* raised (class, code, first words of the message).  origin tells where a
\* valid one came from: "new" (created by this call) or "cache".
Verification(tx, ts) ==
  [valid |-> TRUE, cls |-> "PaymentVerification", code |-> "", msg |-> "",
   transaction_hash |-> tx, timestamp |-> ts, origin |-> "new"]

Raise(cls, code, msg) ==
  [valid |-> FALSE, cls |-> cls, code |-> code, msg |-> msg,
   transaction_hash |-> 0, timestamp |-> 0, origin |-> "raised"]

NoResult == Raise("", "", "")
Passed == Raise("", "", "passed")

\* verify_payment_requirements with the exact scheme refusing underpayment
\* only (`<` in place of `!=` at line 105).
verify_payment_requirements_underpaid(p, required_amount, required_token, required_recipient, required_chain_id, scheme, current_time) ==
  IF p.valid_before < current_time
  THEN Raise("PaymentExpiredError", "PAYMENT_EXPIRED", "Payment expired")
  ELSE IF Lower(p.to) # Lower(required_recipient)
  THEN Raise("InvalidPaymentError", "INVALID_PAYMENT", "Expected recipient")
  ELSE IF Lower(p.token) # Lower(required_token)
  THEN Raise("InvalidPaymentError", "INVALID_TOKEN", "Expected token")
  ELSE IF p.chain_id # required_chain_id
  THEN Raise("InvalidPaymentError", "INVALID_CHAIN", "Expected chain")
  ELSE IF scheme = "exact"
  THEN IF p.value < ToWei(required_amount)
       THEN Raise("InvalidPaymentError", "INVALID_PAYMENT", "Expected exact amount")
       ELSE Passed
  ELSE IF scheme = "upto"
  THEN IF p.value > ToWei(required_amount)
       THEN Raise("InvalidPaymentError", "INVALID_PAYMENT", "exceeds maximum")
       ELSE Passed
  ELSE Raise("ValueError", "", "Unknown payment scheme")

\* verify_payment_requirements: Passed, or the exception it raises.
verify_payment_requirements(p, required_amount, required_token, required_recipient, required_chain_id, scheme, current_time) ==
  IF p.valid_before < current_time
  THEN Raise("PaymentExpiredError", "PAYMENT_EXPIRED", "Payment expired")
  ELSE IF Lower(p.to) # Lower(required_recipient)
  THEN Raise("InvalidPaymentError", "INVALID_PAYMENT", "Expected recipient")
  ELSE IF Lower(p.token) # Lower(required_token)
  THEN Raise("InvalidPaymentError", "INVALID_TOKEN", "Expected token")
  ELSE IF p.chain_id # required_chain_id
  THEN Raise("InvalidPaymentError", "INVALID_CHAIN", "Expected chain")
  ELSE IF scheme = "exact"
  THEN IF p.value # ToWei(required_amount)
       THEN Raise("InvalidPaymentError", "INVALID_PAYMENT", "Expected exact amount")
       ELSE Passed
  ELSE IF scheme = "upto"
  THEN IF p.value > ToWei(required_amount)
       THEN Raise("InvalidPaymentError", "INVALID_PAYMENT", "exceeds maximum")
       ELSE Passed
  ELSE Raise("ValueError", "", "Unknown payment scheme")

\* ---------------------------------------------------------- provider state
\* PaymentData placeholder of a handler that holds none.
NoPayment ==
  [from |-> Addr("none"), to |-> Addr("none"), value |-> 0,
   token |-> Addr("none"), chain_id |-> 0, nonce |-> Nonce(0),
   valid_before |-> 0, signature |-> BadSignature(0)]

\* A handler: where it stands in verify_payment, the payment_data and the
\* route of its request, the clock reading when its checks ran, whether the
\* payment had been accepted before the call began (replay), and whether a
\* call running at the same time on the same payment has returned a new
\* verification (raced).
IdleTask ==
  [pc |-> "idle", payment |-> NoPayment, path |-> "", at |-> 0,
   replay |-> FALSE, raced |-> FALSE]

NoCall ==
  [payment |-> NoPayment, path |-> "", at |-> 0, replay |-> FALSE,
   raced |-> FALSE, result |-> NoResult]

\* An HTTP response of dispatch: the path and the kind of X-Payment header
\* of its request ("none", "malformed", "payment"), the status, the error
\* code of its body, whether the downstream handler ran, the
\* X-Payment-Confirmation header, and the requirement a 402 body carries.
NoResponse ==
  [path |-> "", header |-> "", status |-> 0, code |-> "", handler |-> FALSE,
   confirmation |-> 0, requirement |-> {}]

\* X402Error.status_code of an exception class (exceptions.py).
StatusCode(cls) == IF cls = "PaymentRequiredError" THEN 402 ELSE 400

\* A dispatch that lets the downstream handler run whatever verify_payment
\* ended with.
DispatchResponseUngated(path, res, handler_raises) ==
  [path |-> path, header |-> "payment",
   status |-> IF handler_raises THEN 500 ELSE 200,
   code |-> IF handler_raises THEN "INTERNAL_ERROR" ELSE "",
   handler |-> TRUE, confirmation |-> res.transaction_hash,
   requirement |-> {}]

\* X402Middleware.dispatch, lines 82-120: what dispatch returns once
\* verify_payment has ended with `res`.  A valid verification lets the
\* downstream handler run, and an exception of the handler is caught by the
\* last except branch; an X402Error becomes its status and code.
DispatchResponse(path, res, handler_raises) ==
  IF res.valid
  THEN IF handler_raises
       THEN [path |-> path, header |-> "payment", status |-> 500,
             code |-> "INTERNAL_ERROR", handler |-> TRUE,
             confirmation |-> 0, requirement |-> {}]
       ELSE [path |-> path, header |-> "payment", status |-> 200,
             code |-> "", handler |-> TRUE,
             confirmation |-> res.transaction_hash, requirement |-> {}]
  ELSE [path |-> path, header |-> "payment", status |-> StatusCode(res.cls),
        code |-> res.code, handler |-> FALSE, confirmation |-> 0,
        requirement |-> {}]

\* X402Provider.__init__
ProviderInit ==
  /\ cfg \in [cache_enabled : BOOLEAN, custom_validation : BOOLEAN]
  /\ now = 0
  /\ payment_cache = <<>>
  /\ analytics_data = [requests |-> 0, paid |-> 0, revenue |-> 0,
                       payers |-> [k \in Payers |-> 0]]
  /\ tx_ctr = 0
  /\ issued = {}
  /\ task = [t \in Tasks |-> IdleTask]
  /\ last = NoCall
  /\ accepted = {}
  /\ calls = 0
  /\ last_cleanup = 0
  /\ response = NoResponse

\* An issuance that takes the first accepted token whatever token is given.
create_payment_requirement_first_token(amount, token, scheme, nonce, t) ==
  [amount |-> amount,
   token |-> USDC,
   recipient |-> ProviderWallet,
   chain_id |-> BASE_CHAIN_ID,
   nonce |-> nonce,
   expires_at |-> t + REQUIREMENT_LIFETIME,
   scheme |-> scheme]

\* X402Provider.create_payment_requirement: the requirement returned when
\* the nonce drawn is `nonce` and the clock reads `t`.
create_payment_requirement(amount, token, scheme, nonce, t) ==
  [amount |-> amount,
   token |-> IF token = NoToken THEN USDC ELSE token,
   recipient |-> ProviderWallet,
   chain_id |-> BASE_CHAIN_ID,
   nonce |-> nonce,
   expires_at |-> t + REQUIREMENT_LIFETIME,
   scheme |-> scheme]

\* cache_key = f"{payment_data.signature}-{payment_data.nonce}"
CacheKey(p) == <<p.signature, p.nonce>>

CacheIndex(key) ==
  IF \E i \in 1..Len(payment_cache) : payment_cache[i].key = key
  THEN CHOOSE i \in 1..Len(payment_cache) : payment_cache[i].key = key
  ELSE 0

\* self.payment_cache[cache_key] = verification (a dict keeps the position
\* of a key it already holds).
CachePut(key, v) ==
  IF CacheIndex(key) = 0
  THEN Append(payment_cache, [key |-> key, verification |-> v])
  ELSE [payment_cache EXCEPT ![CacheIndex(key)].verification = v]

\* An analytics update that leaves the paid count alone.
UpdateAnalyticsPaidSkipped(p) ==
  [analytics_data EXCEPT !.revenue = @ + p.value,
                         !.payers[p.from.id] = @ + p.value]

\* X402Provider._update_analytics
UpdateAnalytics(p) ==
  [analytics_data EXCEPT !.paid = @ + 1, !.revenue = @ + p.value,
                         !.payers[p.from.id] = @ + p.value]

\* X402Provider.get_analytics: the counters it reports.
GetAnalytics ==
  [total_requests |-> analytics_data.requests,
   total_paid |-> analytics_data.paid,
   total_revenue |-> analytics_data.revenue,
   top_payers |-> {k \in Payers : analytics_data.payers[k] > 0}]

\* config.custom_validation: the hook of the deployment, here one that
\* refuses payments from payer2.
CustomValidation(p) == p.from.id # "payer2"

\* ----------------------------------------------------------- request input
\* What a payer holding key k signs for requirement r when following the
\* protocol (X402Client._create_payment_authorization).
HonestFields(r, k) ==
  [from |-> Addr(k), to |-> r.recipient, value |-> ToWei(r.amount),
   token |-> r.token, chain_id |-> r.chain_id, nonce |-> r.nonce,
   valid_before |-> r.expires_at]

Sign(k, f) ==
  [from |-> f.from, to |-> f.to, value |-> f.value, token |-> f.token,
   chain_id |-> f.chain_id, nonce |-> f.nonce, valid_before |-> f.valid_before,
   signature |-> SignMessage(k, TypedMessage(f))]

\* Values a payer may sign instead of w: one less, one more, half, one and a half.
ValueChoices(w) == {w - 1, w + 1, w \div 2, w + w \div 2}

\* X-Payment headers that answer requirement r: the honest ones, ones signed
\* over one deviating field, and ones altered after signing.
PaymentInputs(r) ==
  LET h == HonestFields(r, "payer1")
      a == Sign("payer1", h)
      m == Sign("payer1", [h EXCEPT !.to = OtherWallet])
  IN  {a, Sign("payer2", HonestFields(r, "payer2"))}
      \cup {Sign("payer1", [h EXCEPT !.to = OtherWallet]),
            Sign("payer1", [h EXCEPT !.to = Lower(h.to)]),
            Sign("payer1", [h EXCEPT !.token = OtherToken]),
            Sign("payer1", [h EXCEPT !.chain_id = 1]),
            Sign("payer1", [h EXCEPT !.nonce = Nonce(0)])}
      \cup {Sign("payer1", [h EXCEPT !.value = v]) : v \in ValueChoices(h.value)}
      \cup {[a EXCEPT !.from = Addr("payer2")],
            [a EXCEPT !.from = Lower(a.from)],
            [a EXCEPT !.signature = BadSignature(a.signature.msg)],
            [a EXCEPT !.value = a.value + a.value \div 2],
            [m EXCEPT !.chain_id = 1,
                      !.signature = BadSignature(m.signature.msg)]}

\* The X-Payment headers sent to the running provider: the two honest
\* payers', a payment signed for a nonce the provider never issued, one
\* signed to another recipient, and the honest one with its from field
\* replaced after signing.
ProviderInputs(r) ==
  LET h == HonestFields(r, "payer1")
      a == Sign("payer1", h)
  IN  {a, Sign("payer2", HonestFields(r, "payer2")),
       Sign("payer1", [h EXCEPT !.nonce = Nonce(0)]),
       Sign("payer1", [h EXCEPT !.to = OtherWallet]),
       [a EXCEPT !.from = Addr("payer2")]}

\* ------------------------------------------------------------ provider steps
\* "0x" + secrets.token_hex(32): 256 random bits, taken to differ from
\* every nonce drawn before.  The nonces of 402 responses are numbered
\* 1, 2, ...; the nonce drawn for the requirement that dispatch builds when
\* a request carries a header is sent to nobody and numbered below zero.
IssuedNonce == Nonce(Cardinality(issued) + 1)
DispatchNonce == Nonce(0 - (calls + 1))

\* The requirement X402Middleware builds for a route (lines 68-73, 137-142).
RouteRequirement(path, nonce, t) ==
  create_payment_requirement(Routes[path].amount, Routes[path].token,
                             Routes[path].scheme, nonce, t)

\* X402Middleware.dispatch without an X-Payment header on a paid route:
\* _payment_required_response issues a requirement in a 402 response.
PaymentRequiredResponse(path) ==
  /\ response = NoResponse
  /\ Cardinality(issued) < MaxIssued
  /\ LET r == RouteRequirement(path, IssuedNonce, now)
     IN  /\ issued' = issued \cup {[path |-> path, requirement |-> r]}
         /\ response' = [NoResponse EXCEPT !.path = path, !.header = "none",
                                           !.status = 402,
                                           !.requirement = {r}]
  /\ analytics_data' = [analytics_data EXCEPT !.requests = @ + 1]
  /\ UNCHANGED <<cfg, now, payment_cache, tx_ctr, task, last, accepted, calls,
                 last_cleanup, check, client_vars, agent_vars, wire, ext_vars>>

\* X402Middleware.dispatch for a path that matches no route (lines 49-54):
\* the downstream handler runs without payment.
FreeRoute ==
  /\ response = NoResponse
  /\ response' = [NoResponse EXCEPT !.path = "/free", !.header = "none",
                                    !.status = 200, !.handler = TRUE]
  /\ UNCHANGED <<cfg, now, payment_cache, analytics_data, tx_ctr, issued, task,
                 last, accepted, calls, last_cleanup, check, client_vars,
                 agent_vars, wire, ext_vars>>

\* X402Middleware.dispatch with an X-Payment header that is not JSON or
\* lacks a field: PaymentData.model_validate_json raises ValidationError at
\* line 65, which the last except branch turns into a 500 response.
MalformedPayment(path) ==
  /\ response = NoResponse
  /\ response' = [NoResponse EXCEPT !.path = path, !.header = "malformed",
                                    !.status = 500,
                                    !.code = "INTERNAL_ERROR"]
  /\ UNCHANGED <<cfg, now, payment_cache, analytics_data, tx_ctr, issued, task,
                 last, accepted, calls, last_cleanup, check, client_vars,
                 agent_vars, wire, ext_vars>>

\* The checks of verify_payment without the cache lookup.
VerifyChecksCacheSkipped(p, r, t) ==
  LET req == verify_payment_requirements(p, r.amount, r.token, r.recipient,
                                         r.chain_id, r.scheme, t)
      sig == verify_eip712_signature(p)
  IN  IF req.cls = "ValueError"
      THEN Raise("InvalidPaymentError", "INVALID_PAYMENT", "Payment verification failed")
      ELSE IF req # Passed THEN req
      ELSE IF sig = "raise"
      THEN Raise("InvalidSignatureError", "INVALID_SIGNATURE", "Signature verification failed")
      ELSE IF sig = "false"
      THEN Raise("InvalidSignatureError", "INVALID_SIGNATURE", "Invalid payment signature")
      ELSE Passed

\* verify_payment, lines 126-146: cache lookup, verify_payment_requirements,
\* verify_eip712_signature.  Passed when all of them let the payment through,
\* a cached verification on a hit, else the exception that leaves the call.
VerifyChecks(p, r, t) ==
  LET i == CacheIndex(CacheKey(p))
      req == verify_payment_requirements(p, r.amount, r.token, r.recipient,
                                         r.chain_id, r.scheme, t)
      sig == verify_eip712_signature(p)
  IN  IF cfg.cache_enabled /\ i # 0
      THEN [payment_cache[i].verification EXCEPT !.origin = "cache"]
      ELSE IF req.cls = "ValueError"
      THEN Raise("InvalidPaymentError", "INVALID_PAYMENT", "Payment verification failed")
      ELSE IF req # Passed THEN req
      ELSE IF sig = "raise"
      THEN Raise("InvalidSignatureError", "INVALID_SIGNATURE", "Signature verification failed")
      ELSE IF sig = "false"
      THEN Raise("InvalidSignatureError", "INVALID_SIGNATURE", "Invalid payment signature")
      ELSE Passed

\* The record of a call that ends with outcome res.
Ended(c, res) ==
  [payment |-> c.payment, path |-> c.path, at |-> c.at, replay |-> c.replay,
   raced |-> c.raced, result |-> res]

\* X402Middleware.dispatch with an X-Payment header (lines 63-80) up to the
\* first await of verify_payment that can suspend: the header is parsed, a
\* requirement is created for the route, and verify_payment runs its cache
\* lookup and checks (provider.py 126-146).  Without a custom validation
\* hook the call goes on through _update_analytics (155) to the await of
\* track_event (159).
VerifyBegin(t, path, p, handler_raises) ==
  /\ response = NoResponse
  /\ task[t].pc = "idle"
  /\ \A u \in Tasks : task[u].pc = "idle" => TaskRank(t) <= TaskRank(u)
  /\ calls < MaxCalls
  /\ LET r == RouteRequirement(path, DispatchNonce, now)
         out == VerifyChecks(p, r, now)
         started == [pc |-> "idle", payment |-> p, path |-> path, at |-> now,
                     replay |-> p \in accepted, raced |-> FALSE]
     IN  IF out # Passed
         THEN /\ task' = task
              /\ last' = Ended(started, out)
              /\ response' = DispatchResponse(path, out, handler_raises)
              /\ accepted' = IF out.valid THEN accepted \cup {p} ELSE accepted
              /\ analytics_data' = [analytics_data EXCEPT !.requests = @ + 1]
         ELSE IF cfg.custom_validation
         THEN /\ task' = [task EXCEPT ![t] =
                           [started EXCEPT !.pc = "custom_validation"]]
              /\ last' = last
              /\ response' = response
              /\ accepted' = accepted
              /\ analytics_data' = [analytics_data EXCEPT !.requests = @ + 1]
         ELSE /\ task' = [task EXCEPT ![t] =
                           [started EXCEPT !.pc = "track_event"]]
              /\ last' = last
              /\ response' = response
              /\ accepted' = accepted
              /\ analytics_data' =
                   [UpdateAnalytics(p) EXCEPT !.requests = @ + 1]
  /\ calls' = calls + 1
  /\ UNCHANGED <<cfg, now, payment_cache, tx_ctr, issued, last_cleanup, check,
                 client_vars, agent_vars, wire, ext_vars>>

\* verify_payment resumes from `await self._run_custom_validation` (150):
\* a refusal raises CUSTOM_VALIDATION_FAILED, otherwise the call goes on
\* through _update_analytics (155) to the await of track_event (159).
CustomValidationReturn(t) ==
  /\ response = NoResponse
  /\ task[t].pc = "custom_validation"
  /\ IF CustomValidation(task[t].payment)
     THEN /\ task' = [task EXCEPT ![t].pc = "track_event"]
          /\ last' = last
          /\ response' = response
          /\ analytics_data' = UpdateAnalytics(task[t].payment)
     ELSE LET res == Raise("InvalidPaymentError", "CUSTOM_VALIDATION_FAILED",
                           "Custom validation failed")
          IN  /\ task' = [task EXCEPT ![t] = IdleTask]
              /\ last' = Ended(task[t], res)
              /\ response' = DispatchResponse(task[t].path, res, FALSE)
              /\ analytics_data' = analytics_data
  /\ UNCHANGED <<cfg, now, payment_cache, tx_ctr, issued, accepted,
                 calls, last_cleanup, check, client_vars, agent_vars, wire, ext_vars>>

\* verify_payment resumes from `await self.analytics.track_event` (159-169)
\* and runs to its return (171-186): a new PaymentVerification with a fresh
\* transaction hash is created and, with caching on, stored under the key.
VerifyComplete(t, handler_raises) ==
  /\ response = NoResponse
  /\ task[t].pc = "track_event"
  /\ LET v == Verification(tx_ctr + 1, now)
     IN  /\ last' = Ended(task[t], v)
         /\ response' = DispatchResponse(task[t].path, v, handler_raises)
         /\ payment_cache' =
              IF cfg.cache_enabled
              THEN CachePut(CacheKey(task[t].payment), v)
              ELSE payment_cache
  /\ task' = [u \in Tasks |->
                IF u = t THEN IdleTask
                ELSE IF task[u].pc # "idle" /\ task[u].payment = task[t].payment
                THEN [task[u] EXCEPT !.raced = TRUE]
                ELSE task[u]]
  /\ tx_ctr' = tx_ctr + 1
  /\ accepted' = accepted \cup {task[t].payment}
  /\ UNCHANGED <<cfg, now, analytics_data, issued, calls,
                 last_cleanup, check, client_vars, agent_vars, wire, ext_vars>>

\* X402Provider._cache_cleanup_task: one wake-up of the loop.  The task is
\* started only when caching is enabled.
CacheCleanup ==
  /\ response = NoResponse
  /\ cfg.cache_enabled
  /\ now - last_cleanup >= CLEANUP_INTERVAL
  /\ payment_cache' =
       IF Len(payment_cache) > CACHE_MAX_ENTRIES
       THEN SubSeq(payment_cache, CACHE_EVICT_COUNT + 1, Len(payment_cache))
       ELSE payment_cache
  /\ last_cleanup' = now
  /\ UNCHANGED <<cfg, now, analytics_data, tx_ctr, issued, task,
                 last, accepted, calls, response, check, client_vars,
                 agent_vars, wire, ext_vars>>

\* The wall clock advances.
Tick(d) ==
  /\ response = NoResponse
  /\ now + d <= MaxTime
  /\ now' = now + d
  /\ UNCHANGED <<cfg, payment_cache, analytics_data, tx_ctr,
                 issued, task, last, accepted, calls, last_cleanup, response,
                 check, client_vars, agent_vars, wire, ext_vars>>

\* X402Middleware.dispatch returns its response: the request is over.  No
\* other step of the provider comes between the end of verify_payment and
\* the response, which the handler builds without suspending inside the
\* provider.
Respond ==
  /\ response # NoResponse
  /\ last' = NoCall
  /\ response' = NoResponse
  /\ UNCHANGED <<cfg, now, payment_cache, analytics_data, tx_ctr, issued,
                 task, accepted, calls, last_cleanup, check, client_vars, agent_vars, wire, ext_vars>>

\* ------------------------------------------- verification applied to inputs
\* verify_payment_requirements as a function of its arguments: one payment,
\* the requirement of one route, one clock reading.
NoCheck == [payment |-> NoPayment, path |-> "", t |-> 0, out |-> NoResult]

\* The requirement a payer answers in these calls: issued at time 0.
CheckRequirement(path) == RouteRequirement(path, Nonce(1), 0)

CheckInputs ==
  {[payment |-> p, path |-> path, t |-> t, out |-> NoResult] :
     path \in Paths, t \in {0} \cup TickSteps,
     p \in UNION {PaymentInputs(CheckRequirement(q)) : q \in Paths}}

ApplyVerifyRequirements ==
  /\ check.out = NoResult
  /\ LET r == CheckRequirement(check.path)
     IN  check' = [check EXCEPT !.out =
           verify_payment_requirements(check.payment, r.amount, r.token,
                                       r.recipient, r.chain_id, r.scheme,
                                       check.t)]
  /\ UNCHANGED <<provider_vars, client_vars, agent_vars, wire, ext_vars>>

\* -------------------------------------------------------------- wire formats
\* A JSON text and what json.loads makes of it: an object (a function from
\* its keys to their values), the literal true, or text that is not JSON.
NoMembers == [k \in {} |-> 0]
JsonObject(members) == [kind |-> "object", members |-> members]
JsonTrue == [kind |-> "true", members |-> NoMembers]
NotJson == [kind |-> "text", members |-> NoMembers]

\* An HTTP header that is not present.
NoHeader == [present |-> FALSE, json |-> NotJson]
Header(json) == [present |-> TRUE, json |-> json]

\* The keys a pydantic model with populate_by_name reads a field from: its
\* alias or its name.  The value found in object j, if any.
FieldValue(j, alias, name) ==
  IF alias \in DOMAIN j.members THEN <<j.members[alias]>>
  ELSE IF name \in DOMAIN j.members THEN <<j.members[name]>>
  ELSE <<>>

\* x402_langchain PaymentAuthorization.to_header: model_dump_json with
\* by_alias=True writes from, chainId and validBefore under their aliases.
ToHeader(a) ==
  JsonObject(("from" :> a.from) @@ ("to" :> a.to) @@ ("value" :> a.value)
             @@ ("token" :> a.token) @@ ("chainId" :> a.chain_id)
             @@ ("nonce" :> a.nonce) @@ ("validBefore" :> a.valid_before)
             @@ ("signature" :> a.signature))

\* fast_x402 PaymentData.model_dump_json(by_alias=True): only from_address
\* has an alias.
PaymentDataHeader(p) ==
  JsonObject(("from" :> p.from) @@ ("to" :> p.to) @@ ("value" :> p.value)
             @@ ("token" :> p.token) @@ ("chain_id" :> p.chain_id)
             @@ ("nonce" :> p.nonce) @@ ("valid_before" :> p.valid_before)
             @@ ("signature" :> p.signature))

\* fast_x402 PaymentData.model_validate_json: every field is required;
\* from_address is read from "from" or "from_address", the others from
\* their names.  ok is FALSE when pydantic raises ValidationError.
ModelValidatePaymentData(j) ==
  LET from == FieldValue(j, "from", "from_address")
      to == FieldValue(j, "to", "to")
      value == FieldValue(j, "value", "value")
      token == FieldValue(j, "token", "token")
      chain_id == FieldValue(j, "chain_id", "chain_id")
      nonce == FieldValue(j, "nonce", "nonce")
      valid_before == FieldValue(j, "valid_before", "valid_before")
      signature == FieldValue(j, "signature", "signature")
  IN  IF \/ j.kind # "object"
         \/ <<>> \in {from, to, value, token, chain_id, nonce, valid_before,
                      signature}
      THEN [ok |-> FALSE, data |-> NoPayment]
      ELSE [ok |-> TRUE,
            data |-> [from |-> from[1], to |-> to[1], value |-> value[1],
                      token |-> token[1], chain_id |-> chain_id[1],
                      nonce |-> nonce[1], valid_before |-> valid_before[1],
                      signature |-> signature[1]]]

\* fast_x402 PaymentRequirement.model_dump(): every field under its name.
RequirementDump(r) ==
  JsonObject(("amount" :> r.amount) @@ ("token" :> r.token)
             @@ ("recipient" :> r.recipient) @@ ("chain_id" :> r.chain_id)
             @@ ("nonce" :> r.nonce) @@ ("expires_at" :> r.expires_at)
             @@ ("scheme" :> r.scheme))

\* A requirement written with the camel-case keys chainId and expiresAt.
RequirementAliasDump(r) ==
  JsonObject(("amount" :> r.amount) @@ ("token" :> r.token)
             @@ ("recipient" :> r.recipient) @@ ("chainId" :> r.chain_id)
             @@ ("nonce" :> r.nonce) @@ ("expiresAt" :> r.expires_at)
             @@ ("scheme" :> r.scheme))

\* X402Middleware._payment_required_response, lines 144-151: the body is
\* the dumped requirement and the X-Payment-Required header is "true".
PaymentRequiredWire(r) ==
  [x_payment_required |-> Header(JsonTrue), body |-> RequirementDump(r)]

\* A requirement no parse has produced.
NoRequirement ==
  [amount |-> 0, token |-> Addr("none"), recipient |-> Addr("none"),
   chain_id |-> 0, nonce |-> Nonce(0), expires_at |-> 0, scheme |-> ""]

\* X402Client.fetch_with_payment, lines 69-73:
\* PaymentRequirement(**response.json()).  The body alone is read; chain_id
\* and expires_at are accepted under their aliases or their names, scheme
\* defaults to "exact"; any failure raises InvalidPaymentRequirementError.
ClientParseRequirement(resp) ==
  LET j == resp.body
      amount == FieldValue(j, "amount", "amount")
      token == FieldValue(j, "token", "token")
      recipient == FieldValue(j, "recipient", "recipient")
      chain_id == FieldValue(j, "chainId", "chain_id")
      nonce == FieldValue(j, "nonce", "nonce")
      expires_at == FieldValue(j, "expiresAt", "expires_at")
      scheme == FieldValue(j, "scheme", "scheme")
  IN  IF \/ j.kind # "object"
         \/ <<>> \in {amount, token, recipient, chain_id, nonce, expires_at}
      THEN [ok |-> FALSE, error |-> "InvalidPaymentRequirementError",
            requirement |-> NoRequirement]
      ELSE [ok |-> TRUE, error |-> "",
            requirement |->
              [amount |-> amount[1], token |-> token[1],
               recipient |-> recipient[1], chain_id |-> chain_id[1],
               nonce |-> nonce[1], expires_at |-> expires_at[1],
               scheme |-> IF scheme = <<>> THEN "exact" ELSE scheme[1]]]

\* X402Agent._parse_requirements (src/agent.py): the X-Payment-Required
\* header, when present, is parsed in place of the body; amount, token,
\* recipient, nonce and expiresAt are subscripted, chainId defaults to the
\* configured chain.  Subscripting raises TypeError on a value that is no
\* object and KeyError on a missing key; fetch reports either as FAILED.
AgentParseRequirements(resp) ==
  LET j == IF resp.x_payment_required.present
           THEN resp.x_payment_required.json
           ELSE resp.body
      amount == FieldValue(j, "amount", "amount")
      token == FieldValue(j, "token", "token")
      recipient == FieldValue(j, "recipient", "recipient")
      chain_id == FieldValue(j, "chainId", "chainId")
      nonce == FieldValue(j, "nonce", "nonce")
      expires_at == FieldValue(j, "expiresAt", "expiresAt")
  IN  IF j.kind = "text"
      THEN [ok |-> FALSE, error |-> "JSONDecodeError",
            requirement |-> NoRequirement]
      ELSE IF j.kind # "object"
      THEN [ok |-> FALSE, error |-> "TypeError", requirement |-> NoRequirement]
      ELSE IF <<>> \in {amount, token, recipient, nonce, expires_at}
      THEN [ok |-> FALSE, error |-> "KeyError", requirement |-> NoRequirement]
      ELSE [ok |-> TRUE, error |-> "",
            requirement |->
              [amount |-> amount[1], token |-> token[1],
               recipient |-> recipient[1],
               chain_id |-> IF chain_id = <<>> THEN BASE_CHAIN_ID
                            ELSE chain_id[1],
               nonce |-> nonce[1], expires_at |-> expires_at[1],
               scheme |-> "exact"]]

\* src/main.py FastX402._create_payment_requirements: the nonce is
\* str(int(time.time() * 1000000)), the clock reading in microseconds.
MainCreatePaymentRequirements(amount, t_us) ==
  [amount |-> amount, token |-> "USDC", recipient |-> ProviderWallet,
   chain_id |-> BASE_CHAIN_ID, nonce |-> t_us,
   expires_at |-> t_us \div MICROSECONDS + REQUIREMENT_LIFETIME]

\* src/main.py X402Provider.generate_payment_requirements: None (here
\* NoMainRequirement) for a price of 0, else a requirement whose nonce is
\* the clock reading in microseconds.
NoMainRequirement ==
  [amount |-> 0, token |-> "", recipient |-> Addr("none"), chain_id |-> 0,
   nonce |-> 0 - 1, expires_at |-> 0]

GeneratePaymentRequirements(price, t_us) ==
  IF price = 0 THEN NoMainRequirement
  ELSE [amount |-> price, token |-> "USDC", recipient |-> ProviderWallet,
        chain_id |-> BASE_CHAIN_ID, nonce |-> t_us,
        expires_at |-> t_us \div MICROSECONDS + REQUIREMENT_LIFETIME]

\* A route match that takes the first pattern matching either way.
MatchRouteFirstMatch(routes, path) ==
  LET matching == {i \in 1..Len(routes) :
                     \/ routes[i] = path
                     \/ /\ routes[i][Len(routes[i])] = "*"
                        /\ Len(path) >= Len(routes[i]) - 1
                        /\ SubSeq(path, 1, Len(routes[i]) - 1) =
                             SubSeq(routes[i], 1, Len(routes[i]) - 1)}
  IN  IF matching # {} THEN CHOOSE i \in matching : \A j \in matching : i <= j
      ELSE 0

\* ----------------------------------------------------- routes and guards
\* X402Middleware._match_route over routes, the route table in the order
\* it was configured (a dict keeps insertion order); a pattern and a path
\* are strings, written as tuples of characters.  The index of the route
\* the path is charged under, or 0 for None.
MatchRoute(routes, path) ==
  LET exact == {i \in 1..Len(routes) : routes[i] = path}
      prefix == {i \in 1..Len(routes) :
                   /\ routes[i][Len(routes[i])] = "*"
                   /\ Len(path) >= Len(routes[i]) - 1
                   /\ SubSeq(path, 1, Len(routes[i]) - 1) =
                        SubSeq(routes[i], 1, Len(routes[i]) - 1)}
  IN  IF exact # {} THEN CHOOSE i \in exact : TRUE
      ELSE IF prefix # {} THEN CHOOSE i \in prefix : \A j \in prefix : i <= j
      ELSE 0

\* Route tables and request paths explored, over the characters / a b *.
RouteInputs ==
  LET patterns == {<<"/", "a">>, <<"/", "a", "*">>, <<"/", "a", "/", "*">>,
                   <<"/", "*">>}
      paths == {<<"/">>, <<"/", "a">>, <<"/", "a", "b">>,
                <<"/", "a", "/", "b">>, <<"/", "b">>, <<"b">>}
  IN  {i \in {[routes |-> <<p, q>>, path |-> path] :
                  p \in patterns, q \in patterns, path \in paths} :
         i.routes[1] # i.routes[2]}
      \cup {[routes |-> <<p>>, path |-> path] :
              p \in patterns, path \in paths}

\* X402Dependency.__call__: x_payment is the X-Payment header and
\* state_payment whether the middleware has stored a verified payment in
\* request.state.  The status raised (0 when the dependency returns and the
\* endpoint runs) and the payment handed to the endpoint.
Dependency(x_payment, state_payment) ==
  IF ~x_payment.present
  THEN [status |-> 402, endpoint |-> FALSE, parsed |-> FALSE]
  ELSE IF state_payment
  THEN [status |-> 0, endpoint |-> TRUE, parsed |-> FALSE]
  ELSE IF ModelValidatePaymentData(x_payment.json).ok
  THEN [status |-> 0, endpoint |-> TRUE, parsed |-> TRUE]
  ELSE [status |-> 400, endpoint |-> FALSE, parsed |-> FALSE]

\* EnhancedX402Provider.require_payment, its payment_dependency: the two
\* headers it reads are present or not; mode is the provider's mode.
PaymentDependency(payment_signature, payment_amount, mode) ==
  IF ~payment_signature \/ ~payment_amount
  THEN [status |-> 402, endpoint |-> FALSE]
  ELSE IF mode = "development"
  THEN [status |-> 0, endpoint |-> TRUE]
  ELSE [status |-> 0, endpoint |-> TRUE]

\* Requests to a guarded endpoint: for X402Dependency, no header, an
\* unreadable one, and the headers of PaymentInputs for the requirement the
\* dependency was built for, with or without an X402Middleware route for
\* the endpoint in front; for payment_dependency, every combination of its
\* two headers and modes.
GuardInputs ==
  LET r == create_payment_requirement(1000, NoToken, "exact", Nonce(1), 0)
  IN  {[guard |-> "X402Dependency", x_payment |-> x, requirement |-> r,
        middleware |-> m] :
         x \in {NoHeader, Header(NotJson)}
               \cup {Header(PaymentDataHeader(p)) : p \in PaymentInputs(r)},
         m \in BOOLEAN}
      \cup {[guard |-> "payment_dependency", payment_signature |-> s,
             payment_amount |-> a, mode |-> m] :
              s \in BOOLEAN, a \in BOOLEAN,
              m \in {"development", "production"}}

\* ------------------------------------------------ wire formats applied
\* One exchange between a client and a provider, or one issuance: its kind,
\* its inputs, and once made its outcome.
NoWire == [kind |-> "", input |-> <<>>, done |-> FALSE, out |-> <<>>]

\* Requirements of X402Provider as a client receives them: 0.0001 and 0.10
\* token, either scheme, issued at 0 or 300.
WireRequirements ==
  {create_payment_requirement(amount, NoToken, scheme, Nonce(1), t) :
     amount \in {1000, 1000000}, scheme \in {"exact", "upto"}, t \in {0, 300}}

\* Arguments of create_payment_requirement: amount, token, scheme, the nonce
\* drawn and the clock reading.
IssueInputs ==
  {[amount |-> amount, token |-> token, scheme |-> scheme, nonce |-> Nonce(n),
    t |-> t] :
     amount \in {1000, 1000000}, token \in {NoToken, OtherToken},
     scheme \in {"exact", "upto"}, n \in 1..2, t \in {0, 300}}

\* 402 responses a client may meet: the middleware's own, and responses
\* with or without an X-Payment-Required header that carries a requirement,
\* over a body that carries another requirement or is not JSON.
ResponseInputs ==
  LET h == create_payment_requirement(1000, NoToken, "exact", Nonce(1), 0)
      b == create_payment_requirement(1005, NoToken, "upto", Nonce(2), 300)
  IN  {PaymentRequiredWire(r) : r \in WireRequirements}
      \cup {[x_payment_required |-> x, body |-> body] :
              x \in {NoHeader, Header(RequirementAliasDump(h)),
                     Header(RequirementDump(h))},
              body \in {RequirementAliasDump(b), RequirementDump(b), NotJson}}

\* Clock readings of src/main.py in microseconds: two requirements are
\* issued at t1 and t2, which may be the same reading.
MainIssueInputs ==
  {[price |-> price, t1 |-> t1, t2 |-> t2] :
     price \in {0, 1000}, t1 \in {0, 1, MICROSECONDS},
     t2 \in {0, 1, MICROSECONDS}}

WireInputs ==
  {[kind |-> "issue", input |-> i, done |-> FALSE, out |-> <<>>] :
     i \in IssueInputs}
  \cup {[kind |-> "authorization", input |-> [requirement |-> r, key |-> k, at |-> t],
         done |-> FALSE, out |-> <<>>] :
          r \in WireRequirements, k \in Payers, t \in {0, 300}}
  \cup {[kind |-> "response", input |-> resp, done |-> FALSE, out |-> <<>>] :
          resp \in ResponseInputs}
  \cup {[kind |-> "main_issue", input |-> i, done |-> FALSE, out |-> <<>>] :
          i \in MainIssueInputs}
  \cup {[kind |-> "route", input |-> i, done |-> FALSE, out |-> <<>>] :
          i \in RouteInputs}
  \cup {[kind |-> "guard", input |-> i, done |-> FALSE, out |-> <<>>] :
          i \in GuardInputs}

\* X402Provider.create_payment_requirement applied to its arguments.
IssueRequirement ==
  /\ wire.kind = "issue"
  /\ ~wire.done
  /\ LET i == wire.input
     IN  wire' = [wire EXCEPT !.done = TRUE,
                   !.out = create_payment_requirement(i.amount, i.token,
                                                      i.scheme, i.nonce, i.t)]
  /\ analytics_data' = [analytics_data EXCEPT !.requests = @ + 1]
  /\ UNCHANGED <<cfg, now, payment_cache, tx_ctr, issued, task, last,
                 accepted, calls, last_cleanup, response, check, client_vars,
                 agent_vars, ext_vars>>

\* The paid request of fetch_with_payment met by dispatch: the client signs
\* an authorization for the requirement (client.py 96, 138-190) and sends
\* it as to_header writes it (101); dispatch parses the header (middleware
\* 65) and, when that succeeds, verifies the payment against the
\* requirement of the route (68-80).
SendAuthorization ==
  /\ wire.kind = "authorization"
  /\ ~wire.done
  /\ LET r == wire.input.requirement
         a == Sign(wire.input.key, HonestFields(r, wire.input.key))
         header == ToHeader(a)
         parsed == ModelValidatePaymentData(header)
         res == IF parsed.ok THEN VerifyChecks(parsed.data, r, wire.input.at)
                ELSE NoResult
     IN  wire' = [wire EXCEPT !.done = TRUE,
                   !.out = [authorization |-> a, header |-> header,
                            parsed |-> parsed,
                            verified |-> parsed.ok /\ res = Passed,
                            status |-> IF ~parsed.ok THEN 500
                                       ELSE IF res = Passed THEN 200
                                       ELSE StatusCode(res.cls)]]
  /\ UNCHANGED <<provider_vars, check, client_vars, agent_vars, ext_vars>>

\* A 402 response parsed by X402Client and by X402Agent.
ParseResponse ==
  /\ wire.kind = "response"
  /\ ~wire.done
  /\ wire' = [wire EXCEPT !.done = TRUE,
               !.out = [client |-> ClientParseRequirement(wire.input),
                        agent |-> AgentParseRequirements(wire.input)]]
  /\ UNCHANGED <<provider_vars, check, client_vars, agent_vars, ext_vars>>

\* Two requirements issued by each provider of src/main.py.
MainIssue ==
  /\ wire.kind = "main_issue"
  /\ ~wire.done
  /\ LET i == wire.input
     IN  wire' = [wire EXCEPT !.done = TRUE,
                   !.out = [fast |-> <<MainCreatePaymentRequirements(i.price, i.t1),
                                       MainCreatePaymentRequirements(i.price, i.t2)>>,
                            flask |-> <<GeneratePaymentRequirements(i.price, i.t1),
                                        GeneratePaymentRequirements(i.price, i.t2)>>]]
  /\ UNCHANGED <<provider_vars, check, client_vars, agent_vars, ext_vars>>

\* X402Middleware.dispatch, lines 47-54: the request path is matched
\* against the routes; an unmatched path goes to its handler unpaid.
MatchRequest ==
  /\ wire.kind = "route"
  /\ ~wire.done
  /\ LET i == MatchRoute(wire.input.routes, wire.input.path)
     IN  wire' = [wire EXCEPT !.done = TRUE,
                   !.out = [route |-> i, payment_required |-> i # 0]]
  /\ UNCHANGED <<provider_vars, check, client_vars, agent_vars, ext_vars>>

\* One request to an endpoint guarded by X402Dependency or by
\* payment_dependency.  With a middleware route in front
\* (middleware.py 56-109) the request reaches the dependency only after
\* verify_payment accepted its header, and then request.state.x402_payment
\* is set; without one request.state is empty.
GuardRequest ==
  /\ wire.kind = "guard"
  /\ ~wire.done
  /\ LET i == wire.input
     IN  wire' = [wire EXCEPT !.done = TRUE,
                   !.out =
                      IF i.guard = "payment_dependency"
                      THEN PaymentDependency(i.payment_signature,
                                             i.payment_amount, i.mode)
                      ELSE IF ~i.middleware
                      THEN Dependency(i.x_payment, FALSE)
                      ELSE IF ~i.x_payment.present
                      THEN [status |-> 402, endpoint |-> FALSE,
                            parsed |-> FALSE]
                      ELSE IF ~ModelValidatePaymentData(i.x_payment.json).ok
                      THEN [status |-> 500, endpoint |-> FALSE,
                            parsed |-> FALSE]
                      ELSE IF VerifyChecks(
                                ModelValidatePaymentData(i.x_payment.json).data,
                                i.requirement, now) # Passed
                      THEN [status |-> 402, endpoint |-> FALSE,
                            parsed |-> FALSE]
                      ELSE Dependency(i.x_payment, TRUE)]
  /\ UNCHANGED <<provider_vars, check, client_vars, agent_vars, ext_vars>>

\* ------------------------------------------------------------------ client
\* A fetch_with_payment call: where it stands, its url's domain and its
\* max_amount, the amount of the requirement it answers, the hour window in
\* which its limit check ran, the HTTP requests it has sent, whether it has
\* signed an authorization, and its outcome.
IdleFetch ==
  [pc |-> "idle", domain |-> "", max_amount |-> NoMax, amount |-> 0,
   window |-> 0, sent |-> 0, signed |-> FALSE, status |-> 0, outcome |-> ""]

\* X402Client.__init__
ClientInit ==
  /\ ccfg \in ClientConfigs
  /\ cnow = 0
  /\ spent_today = 0
  /\ spent_hour = 0
  /\ last_hour_reset = 0
  /\ last_day_reset = 0
  /\ fetch = [f \in Fetches |-> IdleFetch]
  /\ fetches = 0

\* A call has reached its return or raise statement: its caller sees the
\* outcome in the same step of the event loop, before anything else runs.
Returning == \E f \in Fetches : fetch[f].pc = "done"

\* A domain check that consults the allow list only.
DomainAllowedAllowListOnly(domain) ==
  ~(ccfg.allow_list /\ domain \notin AllowedDomains)

\* fetch_with_payment, lines 49-53: the domain passes both lists.
DomainAllowed(domain) ==
  /\ ~(ccfg.allow_list /\ domain \notin AllowedDomains)
  /\ domain \notin BlockedDomains

\* fetch_with_payment, line 77: `max_amount and amount > max_amount`.
ExceedsMaxAmount(max_amount, amount) ==
  /\ max_amount # NoMax
  /\ max_amount # 0
  /\ amount > max_amount

\* X402Client._check_spending_limits, the counters after its window resets.
HourAfterReset(t) == IF t - last_hour_reset > HOUR_SECONDS THEN 0 ELSE spent_hour
DayAfterReset(t) == IF t - last_day_reset > DAY_SECONDS THEN 0 ELSE spent_today
HourResetAt(t) == IF t - last_hour_reset > HOUR_SECONDS THEN t ELSE last_hour_reset
DayResetAt(t) == IF t - last_day_reset > DAY_SECONDS THEN t ELSE last_day_reset

\* X402Client._check_spending_limits, its return value.
CheckSpendingLimits(amount, t) ==
  /\ amount <= SpendingLimits.per_request
  /\ HourAfterReset(t) + amount <= SpendingLimits.per_hour
  /\ DayAfterReset(t) + amount <= SpendingLimits.per_day

\* config.approval_callback of the deployment: approves up to 50 cents.
ApprovalCallback(amount) == amount <= 50

\* An approval step that never calls a plain-function callback.
GetApprovalCallbackSkipped(amount) ==
  IF ccfg.auto_approve THEN "approved"
  ELSE IF ccfg.approval_callback \in {"async", "stalled"} THEN "await"
  ELSE "approved"

\* X402Client._get_approval up to its first suspension: "approved",
\* "denied", or "await" when a coroutine callback is awaited.
GetApproval(amount) ==
  IF ccfg.auto_approve THEN "approved"
  ELSE IF ccfg.approval_callback \in {"async", "stalled"} THEN "await"
  ELSE IF ccfg.approval_callback = "sync"
  THEN IF ApprovalCallback(amount) THEN "approved" ELSE "denied"
  ELSE "approved"

\* X402Client.get_spending_status
GetSpendingStatus ==
  [spent_today |-> spent_today,
   spent_hour |-> spent_hour,
   limits |-> SpendingLimits,
   remaining |-> [hour |-> SpendingLimits.per_hour - spent_hour,
                  day |-> SpendingLimits.per_day - spent_today]]

\* fetch_with_payment, lines 48-57: the domain check raises
\* DomainNotAllowedError, or the first request is sent and the call
\* suspends until the response arrives.
FetchBegin(f, domain, max_amount) ==
  /\ ~Returning
  /\ fetch[f].pc = "idle"
  /\ \A g \in Fetches : fetch[g].pc = "idle" => FetchRank(f) <= FetchRank(g)
  /\ fetches < MaxFetches
  /\ LET c == [IdleFetch EXCEPT !.domain = domain, !.max_amount = max_amount]
     IN  IF DomainAllowed(domain)
         THEN fetch' = [fetch EXCEPT ![f] =
                          [c EXCEPT !.pc = "first_request", !.sent = 1]]
         ELSE fetch' = [fetch EXCEPT ![f] =
                          [c EXCEPT !.pc = "done",
                                    !.outcome = "DomainNotAllowedError"]]
  /\ fetches' = fetches + 1
  /\ UNCHANGED <<ccfg, cnow, spent_today, spent_hour, last_hour_reset,
                 last_day_reset, provider_vars, check, agent_vars, wire, ext_vars>>

\* fetch_with_payment, lines 59-67: the first response is not a 402.
FreeResponse(f) ==
  /\ ~Returning
  /\ fetch[f].pc = "first_request"
  /\ fetch' = [fetch EXCEPT ![f].pc = "done", ![f].outcome = "free"]
  /\ UNCHANGED <<ccfg, cnow, spent_today, spent_hour, last_hour_reset,
                 last_day_reset, fetches, provider_vars, check, agent_vars, wire, ext_vars>>

\* fetch_with_payment, lines 69-104: the first response is a 402 whose
\* requirement asks for `amount`.  An amount above a (truthy) max_amount
\* raises SpendingLimitError.  Otherwise _check_spending_limits rolls the
\* windows and checks the limits; on refusal line 82 reads self.analytics,
\* which X402Client never sets, so the call leaves with AttributeError.
\* Then _get_approval: a refusal raises PaymentDeniedError, a coroutine
\* callback is awaited, and on approval the authorization is signed and the
\* paid request sent.
PaymentRequired(f, amount) ==
  /\ ~Returning
  /\ fetch[f].pc = "first_request"
  /\ LET c == [fetch[f] EXCEPT !.amount = amount]
         d == [c EXCEPT !.window = HourResetAt(cnow)]
     IN  IF ExceedsMaxAmount(fetch[f].max_amount, amount)
         THEN /\ fetch' = [fetch EXCEPT ![f] =
                   [c EXCEPT !.pc = "done", !.outcome = "SpendingLimitError"]]
              /\ UNCHANGED <<spent_today, spent_hour, last_hour_reset,
                             last_day_reset, wire, ext_vars>>
         ELSE /\ spent_hour' = HourAfterReset(cnow)
              /\ spent_today' = DayAfterReset(cnow)
              /\ last_hour_reset' = HourResetAt(cnow)
              /\ last_day_reset' = DayResetAt(cnow)
              /\ IF ~CheckSpendingLimits(amount, cnow)
                 THEN fetch' = [fetch EXCEPT ![f] =
                        [d EXCEPT !.pc = "done", !.outcome = "AttributeError"]]
                 ELSE IF GetApproval(amount) = "await"
                 THEN fetch' = [fetch EXCEPT ![f] = [d EXCEPT !.pc = "approval"]]
                 ELSE IF GetApproval(amount) = "denied"
                 THEN fetch' = [fetch EXCEPT ![f] =
                        [d EXCEPT !.pc = "done", !.outcome = "PaymentDeniedError"]]
                 ELSE fetch' = [fetch EXCEPT ![f] =
                        [d EXCEPT !.pc = "paid_request", !.signed = TRUE,
                                  !.sent = 2]]
  /\ UNCHANGED <<ccfg, cnow, fetches, provider_vars, check, agent_vars, wire, ext_vars>>

\* fetch_with_payment resumes from `await self._get_approval` (92-104): a
\* refusal raises PaymentDeniedError, otherwise the authorization is signed
\* and the paid request sent.  A stalled callback never resumes it.
ApprovalReturn(f) ==
  /\ ~Returning
  /\ fetch[f].pc = "approval"
  /\ ccfg.approval_callback # "stalled"
  /\ IF ApprovalCallback(fetch[f].amount)
     THEN fetch' = [fetch EXCEPT ![f].pc = "paid_request",
                                 ![f].signed = TRUE, ![f].sent = 2]
     ELSE fetch' = [fetch EXCEPT ![f].pc = "done",
                                 ![f].outcome = "PaymentDeniedError"]
  /\ UNCHANGED <<ccfg, cnow, spent_today, spent_hour, last_hour_reset,
                 last_day_reset, fetches, provider_vars, check, agent_vars, wire, ext_vars>>

\* A commit that adds the amount to the hourly counter only.
UpdateSpendingHourOnly(amount) ==
  /\ spent_hour' = spent_hour + amount
  /\ spent_today' = spent_today

\* X402Client._update_spending
UpdateSpending(amount) ==
  /\ spent_hour' = spent_hour + amount
  /\ spent_today' = spent_today + amount

\* A paid response handled with the spend committed whatever the status.
PaidResponseAlwaysCommitted(f, status) ==
  /\ ~Returning
  /\ fetch[f].pc = "paid_request"
  /\ UpdateSpending(fetch[f].amount)
  /\ fetch' = [fetch EXCEPT ![f].pc = "done", ![f].status = status,
                            ![f].outcome = IF status = 200 THEN "paid"
                                           ELSE "failed"]
  /\ UNCHANGED <<ccfg, cnow, last_hour_reset, last_day_reset, fetches,
                 provider_vars, check, agent_vars, wire, ext_vars>>

\* fetch_with_payment, lines 104-136: the paid request's response arrives;
\* status 200 commits the spend, any other status reports failure, and no
\* response within the httpx timeout (status 0 here) raises
\* PaymentTimeoutError.
PaidResponse(f, status) ==
  /\ ~Returning
  /\ fetch[f].pc = "paid_request"
  /\ IF status = 200
     THEN /\ UpdateSpending(fetch[f].amount)
          /\ fetch' = [fetch EXCEPT ![f].pc = "done", ![f].status = status,
                                    ![f].outcome = "paid"]
     ELSE /\ UNCHANGED <<spent_hour, spent_today, wire, ext_vars>>
          /\ fetch' = [fetch EXCEPT ![f].pc = "done", ![f].status = status,
                                    ![f].outcome =
                                       IF status = 0 THEN "PaymentTimeoutError"
                                       ELSE "failed"]
  /\ UNCHANGED <<ccfg, cnow, last_hour_reset, last_day_reset, fetches,
                 provider_vars, check, agent_vars, wire, ext_vars>>

\* fetch_with_payment has returned or raised (lines 51-136): its frame is
\* gone; asyncio.gather of batch_pay_and_fetch keeps the result of a call
\* it launched.
FetchReturn(f) ==
  /\ fetch[f].pc = "done"
  /\ fetch' = [fetch EXCEPT ![f] = IdleFetch]
  /\ batch' = IF /\ batch.pc = "gather"
                 /\ f \in batch.launched
                 /\ \A r \in batch.results : r.call # f
              THEN [batch EXCEPT !.results =
                      @ \cup {[call |-> f, outcome |-> fetch[f].outcome,
                               amount |-> fetch[f].amount]}]
              ELSE batch
  /\ UNCHANGED <<ccfg, cnow, spent_today, spent_hour, last_hour_reset,
                 last_day_reset, fetches, provider_vars, check, agent_vars,
                 wire, main, limiter, poll>>

\* The client's wall clock advances to a later reading.
ClientTick(t) ==
  /\ ~Returning
  /\ t > cnow
  /\ t <= MaxClientTime
  /\ cnow' = t
  /\ UNCHANGED <<ccfg, spent_today, spent_hour, last_hour_reset,
                 last_day_reset, fetch, fetches, provider_vars, check,
                 agent_vars, wire, ext_vars>>

\* ---------------------------------------------------------- enhanced client
\* The EnhancedX402Client part of a client: whether its background funding
\* task runs (auto_fund in development mode), and one batch_pay_and_fetch
\* call: where it stands, its max_total, the calls it launched and the
\* results asyncio.gather has collected.  A plain X402Client has none of it.
NoBatch ==
  [auto_fund |-> FALSE, pc |-> "idle", max_total |-> NoMax, launched |-> {},
   results |-> {}]

\* _setup_auto_funding, check_and_fund (lines 262-268): the background task
\* wakes and finds spent_today above the threshold.
CheckAndFund ==
  /\ batch.auto_fund
  /\ ~Returning
  /\ spent_today > AUTO_FUND_THRESHOLD
  /\ spent_today' = 0
  /\ UNCHANGED <<ccfg, cnow, spent_hour, last_hour_reset, last_day_reset,
                 fetch, fetches, provider_vars, check, agent_vars, wire,
                 ext_vars>>

\* batch_pay_and_fetch(urls, max_total), lines 364-388: `costs` are the
\* costs discovered for the urls; when max_total is truthy and their sum
\* exceeds it the cheaper half of the urls is kept; then
\* fetch_with_payment(url) is started for each url kept, without
\* max_amount, and each call runs to its first request.
BatchPayAndFetch(costs, max_total) ==
  /\ ~Returning
  /\ batch.pc = "idle"
  /\ \A f \in Fetches : fetch[f].pc = "idle"
  /\ LET total == IF Len(costs) = 2 THEN costs[1] + costs[2] ELSE costs[1]
         kept == IF max_total # NoMax /\ max_total # 0 /\ total > max_total
                 THEN Len(costs) \div 2 ELSE Len(costs)
         started == {f \in Fetches : FetchRank(f) <= kept}
     IN  /\ fetches + kept <= MaxFetches
         /\ fetches' = fetches + kept
         /\ fetch' = [f \in Fetches |->
                        IF f \in started
                        THEN [IdleFetch EXCEPT !.pc = "first_request",
                                               !.domain = "api.example",
                                               !.sent = 1]
                        ELSE fetch[f]]
         /\ batch' = [batch EXCEPT
                        !.pc = IF kept = 0 THEN "returned" ELSE "gather",
                        !.max_total = max_total, !.launched = started,
                        !.results = {}]
  /\ UNCHANGED <<ccfg, cnow, spent_today, spent_hour, last_hour_reset,
                 last_day_reset, provider_vars, check, agent_vars, wire,
                 main, limiter, poll>>

\* batch_pay_and_fetch, lines 390-401: asyncio.gather has every result and
\* the call returns them.
BatchReturn ==
  /\ batch.pc = "gather"
  /\ \A f \in batch.launched : \E r \in batch.results : r.call = f
  /\ batch' = [batch EXCEPT !.pc = "returned"]
  /\ UNCHANGED <<provider_vars, check, client_vars, agent_vars, wire, main,
                 limiter, poll>>

\* ------------------------------------------------------------------- agent
\* PaymentConfig of the agent explored, in whole tokens: daily_limit 20,
\* per_request_limit at its default 10.
AgentLimits == [daily_limit |-> 20, per_request_limit |-> 10]
\* Requirement amounts the agent meets, in whole tokens.
AgentAmounts == {1, 5, 10}
\* PaymentConfig.allowed_tokens, and the tokens requirements name.
AgentAllowedTokens == {"USDC"}
AgentTokens == {"USDC", "DAI"}

\* The result of a fetch call not made yet.
NoAgentCall ==
  [amount |-> 0, day |-> 0, reset_due |-> FALSE, status |-> "", error |-> ""]

\* X402Agent.__init__
AgentInit ==
  /\ acfg \in [auto_approve : BOOLEAN]
  /\ today = 0
  /\ daily_spend = 0
  /\ last_reset = 0
  /\ agent_last = NoAgentCall
  /\ agent_fetches = 0

\* X402Agent.fetch, lines 203-205: the ceiling in force.
AgentMaxAmount(max_amount) ==
  IF max_amount # NoMax /\ max_amount # 0 THEN max_amount
  ELSE AgentLimits.per_request_limit

\* X402Agent._validate_payment: "" when valid, else the error returned.
ValidatePayment(amount, token, expired, max_amount) ==
  IF amount > max_amount THEN "Amount exceeds max"
  ELSE IF amount > AgentLimits.per_request_limit
  THEN "Amount exceeds per-request limit"
  ELSE IF daily_spend + amount > AgentLimits.daily_limit
  THEN "Would exceed daily spending limit"
  ELSE IF token \notin AgentAllowedTokens THEN "Token not allowed"
  ELSE IF expired THEN "Payment requirements expired"
  ELSE ""

\* X402Agent._get_approval with no approval_callback configured.
AgentGetApproval(amount) ==
  IF acfg.auto_approve THEN TRUE
  ELSE amount * 10 < AgentLimits.daily_limit

\* X402Agent._track_spending, the new _daily_spend.
TrackSpending(amount) ==
  IF today # last_reset THEN amount ELSE daily_spend + amount

\* X402Agent.fetch answered by a non-402 response (lines 207-217).
AgentFreeFetch ==
  /\ agent_fetches < MaxAgentFetches
  /\ agent_fetches' = agent_fetches + 1
  /\ agent_last' = [NoAgentCall EXCEPT !.day = today,
                                       !.reset_due = (today # last_reset),
                                       !.status = "completed"]
  /\ UNCHANGED <<acfg, today, daily_spend, last_reset, provider_vars, check,
                 client_vars, wire, ext_vars>>

\* X402Agent.fetch answered by a 402 (lines 219-250): the call blocks until
\* it returns, so it is one step.  paid_status is the status of the response
\* to the paid request.
AgentFetch(amount, token, expired, max_amount, paid_status) ==
  /\ agent_fetches < MaxAgentFetches
  /\ agent_fetches' = agent_fetches + 1
  /\ LET err == ValidatePayment(amount, token, expired,
                                AgentMaxAmount(max_amount))
         c == [NoAgentCall EXCEPT !.amount = amount, !.day = today,
                                  !.reset_due = (today # last_reset)]
     IN  IF err # ""
         THEN /\ agent_last' = [c EXCEPT !.status = "rejected", !.error = err]
              /\ UNCHANGED <<daily_spend, last_reset, wire, ext_vars>>
         ELSE IF ~AgentGetApproval(amount)
         THEN /\ agent_last' =
                   [c EXCEPT !.status = "rejected",
                             !.error = "Payment rejected by approval process"]
              /\ UNCHANGED <<daily_spend, last_reset, wire, ext_vars>>
         ELSE IF paid_status # 200
         THEN /\ agent_last' =
                   [c EXCEPT !.status = "failed", !.error = "Payment failed"]
              /\ UNCHANGED <<daily_spend, last_reset, wire, ext_vars>>
         ELSE /\ agent_last' = [c EXCEPT !.status = "completed"]
              /\ daily_spend' = TrackSpending(amount)
              /\ last_reset' = today
  /\ UNCHANGED <<acfg, today, provider_vars, check, client_vars, wire, ext_vars>>

\* The calendar day changes.
AgentNextDay ==
  /\ today < MaxDays
  /\ today' = today + 1
  /\ UNCHANGED <<acfg, daily_spend, last_reset, agent_last, agent_fetches,
                 provider_vars, check, client_vars, wire, ext_vars>>


\* ------------------------------------------------------------- src/main.py
\* The EIP-712 message _verify_payment and verify_payment rebuild from the
\* fields of a payment header: the recipient is the provider's own wallet,
\* the rest is what the header says.
MainMessage(p) ==
  [recipient |-> ProviderWallet, amount |-> p.amount, token |-> p.token,
   nonce |-> p.nonce, expiresAt |-> p.expiresAt, chainId |-> BASE_CHAIN_ID]

\* Endpoint prices of the deployment explored, in cents: price("/cheap",
\* 0.05), price("/dear", 0.10).
MainPricing == [e \in {"/cheap", "/dear"} |-> IF e = "/cheap" THEN 5 ELSE 10]

\* X-Payment headers sent to the providers of src/main.py: payer1 pays the
\* dear price, payer1 pays the cheap price, payer2 pays the dear price, and
\* the cheap payment with its amount raised after signing.
MainPayments ==
  LET pay(k, amount, nonce) ==
        LET f == [amount |-> amount, token |-> "USDC", nonce |-> nonce,
                  expiresAt |-> REQUIREMENT_LIFETIME, signer |-> Addr(k)]
        IN  [amount |-> f.amount, token |-> f.token, nonce |-> f.nonce,
             expiresAt |-> f.expiresAt, signer |-> f.signer,
             signature |-> SignMessage(k, MainMessage(f))]
  IN  {pay("payer1", 10, 1), pay("payer1", 5, 2), pay("payer2", 10, 3),
       [pay("payer1", 5, 2) EXCEPT !.amount = 10]}

\* The signer check of _verify_payment (lines 373-379) and of
\* verify_payment (1186-1199): the recovered address equals the signer the
\* header names.
MainSignerMatches(p) ==
  Lower(RecoverMessage(MainMessage(p), p.signature)) = Lower(p.signer)

\* FastX402 and X402Provider of src/main.py after construction, and the
\* clock they read; `accepted` records the payment ids each has accepted
\* so far and `last` the request served last.
MainBuilt ==
  [now |-> 0, used_payments |-> {}, payment_cache |-> {},
   paid_requests |-> [fast |-> 0, flask |-> 0], requests |-> 0,
   accepted |-> [fast |-> {}, flask |-> {}],
   last |-> [provider |-> "", endpoint |-> "", id |-> <<>>, amount |-> 0,
             accepted |-> FALSE]]

\* x402_middleware of FastX402 (lines 198-257) for a priced endpoint and a
\* request with an X-Payment header: _verify_payment (315-390) refuses a
\* payment id (nonce:signature) found in _used_payments, an amount below
\* the price and a
\* signer mismatch; else it records the id with the clock reading and
\* _cleanup_payment_cache (402-408) keeps the entries younger than the TTL.
FastRequest(endpoint, p) ==
  /\ main.requests < MaxMainRequests
  /\ LET id == <<p.nonce, p.signature>>
         ok == /\ \A e \in main.used_payments : e.id # id
               /\ ~(p.amount < MainPricing[endpoint])
               /\ MainSignerMatches(p)
         marked == main.used_payments \cup {[id |-> id, at |-> main.now]}
     IN  main' =
           [main EXCEPT
              !.requests = @ + 1,
              !.used_payments =
                 IF ok
                 THEN {e \in marked : main.now - e.at < MAIN_PAYMENT_CACHE_TTL}
                 ELSE @,
              !.paid_requests.fast = IF ok THEN @ + 1 ELSE @,
              !.accepted.fast = IF ok THEN @ \cup {id} ELSE @,
              !.last = [provider |-> "fast", endpoint |-> endpoint, id |-> id,
                        amount |-> p.amount, accepted |-> ok]]
  /\ UNCHANGED <<provider_vars, check, client_vars, agent_vars, wire,
                 limiter, poll, batch>>

\* x402_flask_middleware.check_payment (lines 1288-1331) for a priced
\* endpoint and a request with an X-Payment header: verify_payment
\* (1140-1234) is given the header alone; it refuses a payment id found in
\* payment_cache and a signer mismatch; else it records the id with the
\* clock reading and _clean_payment_cache (1245-1253) deletes the entries
\* older than one hour.
FlaskRequest(endpoint, p) ==
  /\ main.requests < MaxMainRequests
  /\ LET id == <<p.nonce, p.signature>>
         ok == /\ \A e \in main.payment_cache : e.id # id
               /\ MainSignerMatches(p)
         cached == main.payment_cache \cup {[id |-> id, at |-> main.now]}
     IN  main' =
           [main EXCEPT
              !.requests = @ + 1,
              !.payment_cache =
                 IF ok
                 THEN {e \in cached : ~(main.now - e.at > MAIN_PAYMENT_CACHE_TTL)}
                 ELSE @,
              !.paid_requests.flask = IF ok THEN @ + 1 ELSE @,
              !.accepted.flask = IF ok THEN @ \cup {id} ELSE @,
              !.last = [provider |-> "flask", endpoint |-> endpoint, id |-> id,
                        amount |-> p.amount, accepted |-> ok]]
  /\ UNCHANGED <<provider_vars, check, client_vars, agent_vars, wire,
                 limiter, poll, batch>>

\* time.time() of src/main.py advances to a later reading.
MainTick(t) ==
  /\ t > main.now
  /\ main' = [main EXCEPT !.now = t]
  /\ UNCHANGED <<provider_vars, check, client_vars, agent_vars, wire,
                 limiter, poll, batch>>

MainNext ==
  \/ \E endpoint \in DOMAIN MainPricing : \E p \in MainPayments :
        FastRequest(endpoint, p)
  \/ \E endpoint \in DOMAIN MainPricing : \E p \in MainPayments :
        FlaskRequest(endpoint, p)
  \/ \E t \in {MAIN_PAYMENT_CACHE_TTL, MAIN_PAYMENT_CACHE_TTL + 1} : MainTick(t)


\* ------------------------------------------------------------ rate limiter
\* RateLimiter(max_requests=2, window_seconds=60) after construction and
\* the clock it reads: requests maps a key to its count and first_request
\* (count 0: the key is absent); `log` lists the is_allowed calls made.
\* max_requests is positive, as in every construction in the repository
\* (examples/rate_limited_api.py 20-21).
LimiterBuilt ==
  [max_requests |-> 2, window_seconds |-> 60, now |-> 0,
   requests |-> [k \in {"k1", "k2"} |-> [count |-> 0, first_request |-> 0]],
   log |-> <<>>]

\* An is_allowed that never refuses.
IsAllowedUnlimited(key) ==
  /\ Len(limiter.log) < MaxLimiterCalls
  /\ LET cleaned == [k \in DOMAIN limiter.requests |->
                       IF /\ limiter.requests[k].count > 0
                          /\ limiter.now - limiter.requests[k].first_request
                               < limiter.window_seconds
                       THEN limiter.requests[k]
                       ELSE [count |-> 0, first_request |-> 0]]
         entry == cleaned[key]
     IN  limiter' =
           [limiter EXCEPT
              !.requests =
                 IF entry.count = 0
                 THEN [cleaned EXCEPT ![key] =
                         [count |-> 1, first_request |-> limiter.now]]
                 ELSE [cleaned EXCEPT ![key].count = @ + 1],
              !.log = Append(@, [key |-> key, at |-> limiter.now,
                                 allowed |-> TRUE])]
  /\ UNCHANGED <<provider_vars, check, client_vars, agent_vars, wire,
                 main, poll, batch>>

\* RateLimiter.is_allowed(key): entries whose window has elapsed are
\* dropped; an absent key starts a window with count 1; a key at
\* max_requests is refused; otherwise the count grows by one.  (After the
\* cleaning no entry is as old as the window, so the reset branch of lines
\* 172-176 is never taken.)
IsAllowed(key) ==
  /\ Len(limiter.log) < MaxLimiterCalls
  /\ LET cleaned == [k \in DOMAIN limiter.requests |->
                       IF /\ limiter.requests[k].count > 0
                          /\ limiter.now - limiter.requests[k].first_request
                               < limiter.window_seconds
                       THEN limiter.requests[k]
                       ELSE [count |-> 0, first_request |-> 0]]
         entry == cleaned[key]
         allowed == entry.count = 0 \/ entry.count < limiter.max_requests
     IN  limiter' =
           [limiter EXCEPT
              !.requests =
                 IF entry.count = 0
                 THEN [cleaned EXCEPT ![key] =
                         [count |-> 1, first_request |-> limiter.now]]
                 ELSE IF entry.count >= limiter.max_requests THEN cleaned
                 ELSE [cleaned EXCEPT ![key].count = @ + 1],
              !.log = Append(@, [key |-> key, at |-> limiter.now,
                                 allowed |-> allowed])]
  /\ UNCHANGED <<provider_vars, check, client_vars, agent_vars, wire,
                 main, poll, batch>>

\* time.time() of the rate limiter advances to a later reading.
LimiterTick(t) ==
  /\ t > limiter.now
  /\ limiter' = [limiter EXCEPT !.now = t]
  /\ UNCHANGED <<provider_vars, check, client_vars, agent_vars, wire,
                 main, poll, batch>>

LimiterNext ==
  \/ \E key \in DOMAIN limiter.requests : IsAllowed(key)
  \/ \E t \in {30, 59, 60, 61, 90, 120} : LimiterTick(t)


\* ------------------------------------------------------ facilitator client
\* FacilitatorClient after construction, with the facilitator it talks to:
\* `status` is the payment's status at the facilitator ("" before it is
\* submitted) and `settled_at` the clock reading at which that status
\* became final; `cached` is the client's _payment_cache entry for the
\* payment; `wait` is one wait_for_payment call.
PollBuilt ==
  [now |-> 0, status |-> "", settled_at |-> 0,
   cached |-> [present |-> FALSE, data |-> "", submitted_at |-> 0],
   wait |-> [pc |-> "idle", timeout |-> 0, start_time |-> 0,
             checked_at |-> 0, result |-> ""]]

\* PaymentStatus.COMPLETED, PaymentStatus.FAILED
FinalStatuses == {"completed", "failed"}

\* FacilitatorClient.submit_payment: the facilitator registers the payment
\* as pending and answers with it; the client caches the answer with the
\* clock reading.
SubmitPayment ==
  /\ poll.status = ""
  /\ poll' = [poll EXCEPT
                !.status = "pending",
                !.cached = [present |-> TRUE, data |-> "pending",
                            submitted_at |-> poll.now]]
  /\ UNCHANGED <<provider_vars, check, client_vars, agent_vars, wire,
                 main, limiter, batch>>

\* The facilitator moves the payment on: to processing, or to a final
\* status.
FacilitatorStep(s) ==
  /\ poll.status \in {"pending", "processing"}
  /\ s # poll.status
  /\ poll' = [poll EXCEPT
                !.status = s,
                !.settled_at = IF s \in FinalStatuses THEN poll.now ELSE @]
  /\ UNCHANGED <<provider_vars, check, client_vars, agent_vars, wire,
                 main, limiter, batch>>

\* FacilitatorClient.check_payment_status: the cached data while the entry
\* is younger than cache_ttl, else the facilitator's answer, which replaces
\* the entry.  The data returned and the cache afterwards.
CheckPaymentStatus ==
  IF /\ poll.cached.present
     /\ poll.now - poll.cached.submitted_at < FACILITATOR_CACHE_TTL
  THEN [data |-> poll.cached.data, cached |-> poll.cached]
  ELSE [data |-> poll.status,
        cached |-> [present |-> TRUE, data |-> poll.status,
                    submitted_at |-> poll.now]]

\* FacilitatorClient.wait_for_payment is called for the submitted payment
\* (lines 123-129).
WaitBegin(timeout) ==
  /\ poll.status # ""
  /\ poll.wait.pc = "idle"
  /\ poll' = [poll EXCEPT !.wait = [pc |-> "check", timeout |-> timeout,
                                    start_time |-> poll.now,
                                    checked_at |-> poll.now, result |-> ""]]
  /\ UNCHANGED <<provider_vars, check, client_vars, agent_vars, wire,
                 main, limiter, batch>>

\* wait_for_payment, one turn of its loop (lines 131-139): past the timeout
\* it raises TimeoutError; else it checks the status, returns a final one,
\* and otherwise goes to sleep.
WaitCheck ==
  /\ poll.wait.pc = "check"
  /\ IF ~(poll.now - poll.wait.start_time < poll.wait.timeout)
     THEN poll' = [poll EXCEPT !.wait.pc = "TimeoutError"]
     ELSE LET c == CheckPaymentStatus
          IN  poll' = [poll EXCEPT
                         !.cached = c.cached,
                         !.wait.checked_at = poll.now,
                         !.wait.result = c.data,
                         !.wait.pc = IF c.data \in FinalStatuses
                                     THEN "returned" ELSE "sleep"]
  /\ UNCHANGED <<provider_vars, check, client_vars, agent_vars, wire,
                 main, limiter, batch>>

\* wait_for_payment resumes from `await asyncio.sleep(1)` (line 137).
WaitSleep ==
  /\ poll.wait.pc = "sleep"
  /\ poll' = [poll EXCEPT !.now = @ + POLL_INTERVAL, !.wait.pc = "check"]
  /\ UNCHANGED <<provider_vars, check, client_vars, agent_vars, wire,
                 main, limiter, batch>>

\* One payment submitted and waited for, with the default timeout and with
\* one longer than cache_ttl.
PollNext ==
  \/ SubmitPayment
  \/ \E s \in {"processing"} \cup FinalStatuses : FacilitatorStep(s)
  \/ \E timeout \in {FACILITATOR_TIMEOUT, FACILITATOR_CACHE_TTL + 10} :
        WaitBegin(timeout)
  \/ WaitCheck
  \/ WaitSleep

\* ---------------------------------------------------------- specifications
\* The parts beside the provider and the clients, as constructed.
ExtInit ==
  /\ main = MainBuilt
  /\ limiter = LimiterBuilt
  /\ poll = PollBuilt
  /\ batch = NoBatch

\* The provider under each of its configurations, beside a client built with
\* the default X402Config (auto_approve off, no callback).
Init ==
  /\ ProviderInit
  /\ check = NoCheck
  /\ wire = NoWire
  /\ ExtInit
  /\ ClientInit
  /\ ccfg = DefaultClientConfig
  /\ AgentInit
  /\ acfg = [auto_approve |-> TRUE]

\* The requests served when the downstream handler does not raise.
Next ==
  \/ \E path \in Paths : PaymentRequiredResponse(path)
  \/ \E t \in Tasks : \E item \in issued :
        \E p \in ProviderInputs(item.requirement) :
          VerifyBegin(t, item.path, p, FALSE)
  \/ \E t \in Tasks : CustomValidationReturn(t)
  \/ \E t \in Tasks : VerifyComplete(t, FALSE)
  \/ Respond
  \/ CacheCleanup
  \/ \E d \in TickSteps : Tick(d)

\* The running provider.
Spec == Init /\ [][Next]_vars

\* The provider built with caching and a custom validation hook, serving
\* every kind of request: unpaid routes, unreadable X-Payment headers and
\* requests whose downstream handler raises, besides the requests of Next.
DispatchInit ==
  /\ Init
  /\ cfg = [cache_enabled |-> TRUE, custom_validation |-> TRUE]

DispatchNext ==
  \/ Next
  \/ FreeRoute
  \/ \E path \in Paths : MalformedPayment(path)
  \/ \E t \in Tasks : \E item \in issued :
        \E p \in ProviderInputs(item.requirement) :
          VerifyBegin(t, item.path, p, TRUE)
  \/ \E t \in Tasks : VerifyComplete(t, TRUE)

\* The middleware in front of the running provider.
DispatchSpec == DispatchInit /\ [][DispatchNext]_vars

CheckInit ==
  /\ ProviderInit
  /\ cfg = [cache_enabled |-> TRUE, custom_validation |-> FALSE]
  /\ check \in CheckInputs
  /\ wire = NoWire
  /\ ExtInit
  /\ ClientInit
  /\ ccfg = DefaultClientConfig
  /\ AgentInit
  /\ acfg = [auto_approve |-> TRUE]

\* verify_payment_requirements applied once to each input.
CheckSpec == CheckInit /\ [][ApplyVerifyRequirements]_vars

ClientNext ==
  \/ \E f \in Fetches : \E domain \in Domains :
        \E max_amount \in MaxAmountChoices : FetchBegin(f, domain, max_amount)
  \/ \E f \in Fetches : FreeResponse(f)
  \/ \E f \in Fetches : \E amount \in AmountChoices : PaymentRequired(f, amount)
  \/ \E f \in Fetches : ApprovalReturn(f)
  \/ \E f \in Fetches : \E status \in {200, 402, 0} : PaidResponse(f, status)
  \/ \E f \in Fetches : FetchReturn(f)
  \/ \E t \in ClientTimes : ClientTick(t)

\* The client under each of its configurations, beside a provider built
\* with the default X402Config (cache on, no custom validation).
ClientSpecInit ==
  /\ ProviderInit
  /\ cfg = [cache_enabled |-> TRUE, custom_validation |-> FALSE]
  /\ check = NoCheck
  /\ wire = NoWire
  /\ ExtInit
  /\ ClientInit
  /\ AgentInit
  /\ acfg = [auto_approve |-> TRUE]

\* The running client.
ClientSpec == ClientSpecInit /\ [][ClientNext]_vars

WireInit ==
  /\ ProviderInit
  /\ cfg = [cache_enabled |-> TRUE, custom_validation |-> FALSE]
  /\ check = NoCheck
  /\ wire \in WireInputs
  /\ ExtInit
  /\ ClientInit
  /\ ccfg = DefaultClientConfig
  /\ AgentInit
  /\ acfg = [auto_approve |-> TRUE]

WireNext ==
  \/ IssueRequirement
  \/ SendAuthorization
  \/ ParseResponse
  \/ MainIssue
  \/ MatchRequest
  \/ GuardRequest

\* Issuance, and the encodings of client and provider, applied once to
\* each input.
WireSpec == WireInit /\ [][WireNext]_vars

AgentSpecInit ==
  /\ ProviderInit
  /\ cfg = [cache_enabled |-> TRUE, custom_validation |-> FALSE]
  /\ check = NoCheck
  /\ wire = NoWire
  /\ ExtInit
  /\ ClientInit
  /\ ccfg = DefaultClientConfig
  /\ AgentInit

AgentNext ==
  \/ AgentFreeFetch
  \/ \E amount \in AgentAmounts : \E token \in AgentTokens :
       \E expired \in BOOLEAN : \E max_amount \in {NoMax, 5} :
         \E paid_status \in {200, 402} :
           AgentFetch(amount, token, expired, max_amount, paid_status)
  \/ AgentNextDay

\* The running agent.
AgentSpec == AgentSpecInit /\ [][AgentNext]_vars

\* The running client with its scheduling: a step that can be taken is
\* taken eventually (the event loop resumes every coroutine that is ready).
ClientFairInit ==
  /\ ClientSpecInit
  /\ ccfg.approval_callback \in {"async", "stalled"}

ClientFairSpec == ClientFairInit /\ [][ClientNext]_vars /\ WF_vars(ClientNext)

\* The providers of src/main.py serving paid requests.
MainSpec == DispatchInit /\ [][MainNext]_vars

\* The rate limiter called for two keys.
LimiterSpec == DispatchInit /\ [][LimiterNext]_vars

\* The facilitator client submitting one payment and waiting for it.
PollSpec == DispatchInit /\ [][PollNext]_vars

\* An EnhancedX402Client in development mode with auto_fund, beside a
\* provider built with the default X402Config.
EnhancedInit ==
  /\ ProviderInit
  /\ cfg = [cache_enabled |-> TRUE, custom_validation |-> FALSE]
  /\ check = NoCheck
  /\ wire = NoWire
  /\ main = MainBuilt
  /\ limiter = LimiterBuilt
  /\ poll = PollBuilt
  /\ batch = [NoBatch EXCEPT !.auto_fund = TRUE]
  /\ ccfg = EnhancedConfig
  /\ cnow = 0
  /\ spent_today = 0
  /\ spent_hour = 0
  /\ last_hour_reset = 0
  /\ last_day_reset = 0
  /\ fetch = [f \in Fetches |-> IdleFetch]
  /\ fetches = 0
  /\ AgentInit
  /\ acfg = [auto_approve |-> TRUE]

\* Single calls and one batch, against urls that ask 6.00.
EnhancedNext ==
  \/ \E f \in Fetches : FetchBegin(f, "api.example", NoMax)
  \/ \E costs \in {<<600>>, <<600, 600>>} : \E max_total \in {NoMax, 0, 500} :
        BatchPayAndFetch(costs, max_total)
  \/ \E f \in Fetches : PaymentRequired(f, 600)
  \/ \E f \in Fetches : \E status \in {200, 402} : PaidResponse(f, status)
  \/ \E f \in Fetches : FetchReturn(f)
  \/ BatchReturn
  \/ CheckAndFund
  \/ \E t \in ClientTimes : ClientTick(t)

EnhancedSpec == EnhancedInit /\ [][EnhancedNext]_vars

\* ------------------------------------------------------------------ claims
\* The requirement dispatch built for the call that just ended.
LastRequirement == RouteRequirement(last.path, Nonce(0), last.at)

\* C1: once verify_payment has accepted an authorization, every later call
\* with the identical authorization is rejected as a replay: a call that
\* begins with an authorization accepted before never ends in a successful
\* verification.
C1_ReplayRejected ==
  (last # NoCall /\ last.replay) => ~last.result.valid

\* C2: among concurrently running verify_payment calls that carry the same
\* authorization at most one returns a new successful verification: a call
\* during which another call on the same authorization returned a new
\* verification does not return a new one itself.
C2_FirstCommitterWins ==
  (last # NoCall /\ last.raced) =>
    ~(last.result.valid /\ last.result.origin = "new")

\* C3: a call whose authorization has valid_before earlier than the clock
\* at verification ends with the expiry error, whatever happened before;
\* with valid_before equal to the clock it does not end with that error.
C3_ExpiryDominance ==
  last # NoCall =>
    /\ last.payment.valid_before < last.at =>
          last.result.cls = "PaymentExpiredError"
    /\ last.payment.valid_before = last.at =>
          last.result.cls # "PaymentExpiredError"

\* C4: verify_payment returns a successful verification only if the signer
\* recovered from the signature over the typed message of the
\* authorization's fields equals its from address, case-insensitively.
C4_SignerBinding ==
  (last # NoCall /\ last.result.valid) =>
    verify_eip712_signature(last.payment) = "true"

\* C5: an authorization is verified only if its nonce is the nonce of a
\* requirement the provider issued in a 402 response for that route.
C5_NonceBinding ==
  (last # NoCall /\ last.result.valid) =>
    \E item \in issued :
      /\ item.path = last.path
      /\ item.requirement.nonce = last.payment.nonce

\* The checks before the amount check let the payment of `check` through.
AmountCheckReached ==
  LET r == CheckRequirement(check.path)
      p == check.payment
  IN  /\ check.out # NoResult
      /\ ~(p.valid_before < check.t)
      /\ Lower(p.to) = Lower(r.recipient)
      /\ Lower(p.token) = Lower(r.token)
      /\ p.chain_id = r.chain_id

C7_FieldBinding ==
  check.out # NoResult =>
    LET r == CheckRequirement(check.path)
        p == check.payment
        expired == p.valid_before < check.t
        to_ok == Lower(p.to) = Lower(r.recipient)
        token_ok == Lower(p.token) = Lower(r.token)
        chain_ok == p.chain_id = r.chain_id
        amount_ok == IF r.scheme = "exact" THEN p.value = ToWei(r.amount)
                     ELSE p.value <= ToWei(r.amount)
    IN  /\ (~expired /\ ~to_ok /\ token_ok /\ chain_ok /\ amount_ok) =>
              check.out.cls = "InvalidRecipientError"
        /\ (~expired /\ to_ok /\ ~token_ok /\ chain_ok /\ amount_ok) =>
              check.out.code = "INVALID_TOKEN"
        /\ (~expired /\ to_ok /\ token_ok /\ ~chain_ok /\ amount_ok) =>
              check.out.code = "INVALID_CHAIN"
        /\ (~expired /\ to_ok /\ token_ok /\ chain_ok /\ ~amount_ok) =>
              check.out.cls = "InvalidAmountError"

\* The first check, in the order expiry, recipient, token, chain id, amount,
\* signature, that payment p fails against requirement r at time t.
EarliestFailingCheck(p, r, t) ==
  IF p.valid_before < t THEN "expiry"
  ELSE IF Lower(p.to) # Lower(r.recipient) THEN "recipient"
  ELSE IF Lower(p.token) # Lower(r.token) THEN "token"
  ELSE IF p.chain_id # r.chain_id THEN "chain"
  ELSE IF r.scheme = "exact" /\ p.value # ToWei(r.amount) THEN "amount"
  ELSE IF r.scheme = "upto" /\ p.value > ToWei(r.amount) THEN "amount"
  ELSE IF verify_eip712_signature(p) # "true" THEN "signature"
  ELSE "none"

\* The check an outcome reports as failed.
ReportedCheck(res) ==
  IF res.valid THEN "none"
  ELSE IF res.code = "PAYMENT_EXPIRED" THEN "expiry"
  ELSE IF res.msg = "Expected recipient" THEN "recipient"
  ELSE IF res.code = "INVALID_TOKEN" THEN "token"
  ELSE IF res.code = "INVALID_CHAIN" THEN "chain"
  ELSE IF res.msg \in {"Expected exact amount", "exceeds maximum"} THEN "amount"
  ELSE IF res.code = "INVALID_SIGNATURE" THEN "signature"
  ELSE "other"

\* C8: a call whose authorization fails one or more of the checks expiry,
\* recipient, token, chain id, amount, signature ends with the error of the
\* earliest failing one.
C8_CheckOrder ==
  (last # NoCall
     /\ EarliestFailingCheck(last.payment, LastRequirement, last.at) # "none") =>
    ReportedCheck(last.result) =
      EarliestFailingCheck(last.payment, LastRequirement, last.at)

\* C9: no step removes from the replay memory an entry that is not yet older
\* than the TTL.
C9_TTLBoundedMemory ==
  [][\A i \in 1..Len(payment_cache) :
       now - payment_cache[i].verification.timestamp <= PAYMENT_CACHE_TTL =>
         \E j \in 1..Len(payment_cache') :
           payment_cache'[j].key = payment_cache[i].key]_vars

\* C10: the limit check and the commit form one exclusive section, so two
\* attempts that have both passed the limit check in the same hour window
\* and await their paid responses never exceed the hourly limit together.
C10_SpendRace ==
  \A f, g \in Fetches :
    (/\ f # g
     /\ fetch[f].pc = "paid_request"
     /\ fetch[g].pc = "paid_request"
     /\ fetch[f].window = fetch[g].window
     /\ last_hour_reset = fetch[f].window) =>
      spent_hour + fetch[f].amount + fetch[g].amount <= SpendingLimits.per_hour

\* C11: after every committed payment spent_hour and spent_today are
\* non-negative and at most per_hour and per_day.
C11_SpendBounds ==
  /\ spent_hour >= 0
  /\ spent_today >= 0
  /\ spent_hour <= SpendingLimits.per_hour
  /\ spent_today <= SpendingLimits.per_day

\* Call f leaves its first request in this step with a 402 and reaches the
\* limit check.
ReachesLimitCheck(f) ==
  /\ fetch[f].pc = "first_request"
  /\ fetch'[f].pc # "first_request"
  /\ fetch'[f].outcome \notin {"free", "SpendingLimitError"}

\* C12: whenever the limit check runs with now minus the window start at
\* least one hour, the hourly window restarts at now with counter 0, and
\* likewise the daily window at 24 hours, the exact boundary included.
C12_SpendRollover ==
  [][\A f \in Fetches :
       ReachesLimitCheck(f) =>
         /\ cnow - last_hour_reset >= HOUR_SECONDS =>
              (last_hour_reset' = cnow /\ fetch'[f].window = cnow)
         /\ cnow - last_day_reset >= DAY_SECONDS => last_day_reset' = cnow]_vars

\* C13: a fetch of X402Agent made on a later calendar day than the last
\* tracked payment, for an amount within the per-request and daily limits,
\* is not refused for the daily limit.
C13_DailyReset ==
  (/\ agent_last.status # ""
   /\ agent_last.reset_due
   /\ agent_last.amount <= AgentLimits.per_request_limit
   /\ agent_last.amount <= AgentLimits.daily_limit) =>
    agent_last.error # "Would exceed daily spending limit"

\* The domain is on the block list, or outside a configured allow list.
DomainGated(domain) ==
  \/ domain \in BlockedDomains
  \/ ccfg.allow_list /\ domain \notin AllowedDomains

C15_LimitDenial ==
  [][\A f \in Fetches :
       (/\ ReachesLimitCheck(f)
        /\ \/ fetch'[f].amount > SpendingLimits.per_request
           \/ spent_hour' + fetch'[f].amount > SpendingLimits.per_hour
           \/ spent_today' + fetch'[f].amount > SpendingLimits.per_day) =>
         /\ fetch'[f].outcome = "SpendingLimitError"
         /\ ~fetch'[f].signed
         /\ fetch'[f].sent = 1
         /\ spent_hour' <= spent_hour
         /\ spent_today' <= spent_today]_vars

\* C16: no call has signed an authorization for an amount greater than the
\* max_amount it was given, 0 included.
C16_CallerCeiling ==
  \A f \in Fetches :
    (fetch[f].signed /\ fetch[f].max_amount # NoMax) =>
      fetch[f].amount <= fetch[f].max_amount

\* C17: with automatic approval off and no callback, a call has signed only
\* if its amount is below a tenth of the daily limit.
C17_DefaultApproval ==
  \A f \in Fetches :
    (/\ ~ccfg.auto_approve
     /\ ccfg.approval_callback = "none"
     /\ fetch[f].signed) =>
      fetch[f].amount * 10 < SpendingLimits.per_day

C19_ApprovalTimeout ==
  \A f \in Fetches : (fetch[f].pc = "approval") ~> (fetch[f].pc # "approval")

\* C20: every successful paid fetch adds exactly its amount to spent_hour
\* and to spent_today, the counters change in no other way than by such a
\* commit or a window reset to 0, and get_spending_status reports the limits
\* minus the counters as remaining.
C20_SpendAccounting ==
  /\ [][\A f \in Fetches :
          (fetch[f].pc = "paid_request" /\ fetch'[f].outcome = "paid") =>
            /\ spent_hour' = spent_hour + fetch[f].amount
            /\ spent_today' = spent_today + fetch[f].amount]_vars
  /\ [][/\ spent_hour' # spent_hour =>
             \/ \E f \in Fetches :
                  fetch[f].pc = "paid_request" /\ fetch'[f].outcome = "paid"
             \/ spent_hour' = 0 /\ last_hour_reset' = cnow
        /\ spent_today' # spent_today =>
             \/ \E f \in Fetches :
                  fetch[f].pc = "paid_request" /\ fetch'[f].outcome = "paid"
             \/ spent_today' = 0 /\ last_day_reset' = cnow]_vars
  /\ [](/\ GetSpendingStatus.spent_hour = spent_hour
        /\ GetSpendingStatus.spent_today = spent_today
        /\ GetSpendingStatus.remaining.hour =
             SpendingLimits.per_hour - spent_hour
        /\ GetSpendingStatus.remaining.day =
             SpendingLimits.per_day - spent_today)

\* C20 witness: two paid fetches of 0.50 have been committed.
C20_TwoPaymentsCommitted ==
  /\ spent_hour = 100
  /\ spent_today = 100
  /\ \E f \in Fetches : fetch[f].outcome = "paid" /\ fetch[f].amount = 50

\* C21: on a paid route the downstream handler has run only for a request
\* with an X-Payment header whose verify_payment call returned a valid
\* verification; a request without the header gets status 402 with the
\* requirement just issued, a request whose verification raised gets the
\* status (400) and the code of the error, and in neither case has the
\* handler run.
C21_PaidRouteGate ==
  (response # NoResponse /\ response.path \in Paths) =>
    /\ response.handler =>
         /\ response.header = "payment"
         /\ last # NoCall
         /\ last.path = response.path
         /\ last.result.valid
    /\ response.header = "none" =>
         /\ response.status = 402
         /\ ~response.handler
         /\ \E r \in response.requirement :
              [path |-> response.path, requirement |-> r] \in issued
    /\ (last # NoCall /\ ~last.result.valid) =>
         /\ response.status = 400
         /\ response.code = last.result.code
         /\ ~response.handler

\* C21 witness: the handler of /paid has run after a new verification, whose
\* transaction hash the response confirms.
C21_HandlerRanAfterVerification ==
  /\ response.path = "/paid"
  /\ response.handler
  /\ response.status = 200
  /\ last.result.origin = "new"
  /\ response.confirmation = last.result.transaction_hash

\* C22: an X-Payment header that cannot be parsed is answered with an error
\* that no other request is answered with, and the step that answers it
\* issues no requirement, runs no verification step, and leaves the cache
\* and the analytics counters unchanged.
C22_MalformedInput ==
  /\ [](response.header = "malformed" => response.code # "")
  /\ []((response # NoResponse /\ response.header # "malformed") =>
          <<response.status, response.code>> # <<500, "INTERNAL_ERROR">>)
  /\ [][response'.header = "malformed" =>
          UNCHANGED <<issued, calls, task, last, payment_cache,
                      analytics_data>>]_vars

\* C23: the header to_header writes for the client's authorization is
\* parsed by the provider into a PaymentData with the same from, to, value,
\* token, chain id, nonce, valid-before and signature, and for an
\* exact-scheme requirement of 0.10 token the authorization, of value
\* 100000, is verified while the requirement has not expired.
C23_WireRoundTrip ==
  (wire.kind = "authorization" /\ wire.done) =>
    /\ wire.out.parsed.ok
    /\ wire.out.parsed.data = wire.out.authorization
    /\ (/\ wire.input.requirement.scheme = "exact"
        /\ wire.input.requirement.amount = 1000000
        /\ wire.input.at <= wire.input.requirement.expires_at) =>
         /\ wire.out.authorization.value = 100000
         /\ wire.out.verified

\* The requirement a JSON text carries, under either spelling of its keys.
CarriedRequirements(json) ==
  {r \in WireRequirements \cup
         {create_payment_requirement(1000, NoToken, "exact", Nonce(1), 0),
          create_payment_requirement(1005, NoToken, "upto", Nonce(2), 300)} :
     json \in {RequirementDump(r), RequirementAliasDump(r)}}

\* The requirement a parse must yield for a 402 response: the one of the
\* X-Payment-Required header when that header carries one, else the one of
\* the body.
ExpectedRequirements(resp) ==
  IF /\ resp.x_payment_required.present
     /\ CarriedRequirements(resp.x_payment_required.json) # {}
  THEN CarriedRequirements(resp.x_payment_required.json)
  ELSE CarriedRequirements(resp.body)

\* C24: each client, X402Client and X402Agent, parses a 402 response into
\* the requirement of its X-Payment-Required header when the header carries
\* one, else into the requirement of its JSON body; so the middleware's 402
\* response is parsed into the requirement the provider issued.
C24_HeaderPrecedence ==
  (wire.kind = "response" /\ wire.done) =>
    \A r \in ExpectedRequirements(wire.input) :
      /\ wire.out.client.ok
      /\ wire.out.client.requirement = r
      /\ wire.out.agent.ok
      /\ [wire.out.agent.requirement EXCEPT !.scheme = r.scheme] = r

\* C26: two requirements issued by one provider carry different nonces,
\* also when both are issued at the same clock reading, and the nonce is
\* not the clock reading of the issue.
C26_NonceUniqueness ==
  (wire.kind = "main_issue" /\ wire.done) =>
    /\ wire.out.fast[1].nonce # wire.out.fast[2].nonce
    /\ wire.out.fast[1].nonce # wire.input.t1
    /\ wire.input.price # 0 =>
         /\ wire.out.flask[1].nonce # wire.out.flask[2].nonce
         /\ wire.out.flask[1].nonce # wire.input.t1

\* C27: create_payment_requirement returns the given amount and scheme, the
\* provider's wallet as recipient, the configured chain id, the given token
\* or else the first accepted token, a nonce of 66 characters that begins
\* with 0x, and expires_at equal to the clock reading plus 300.
C27_Issuance ==
  (wire.kind = "issue" /\ wire.done) =>
    /\ wire.out.amount = wire.input.amount
    /\ wire.out.scheme = wire.input.scheme
    /\ wire.out.recipient = Addr("provider")
    /\ wire.out.chain_id = BASE_CHAIN_ID
    /\ wire.out.token =
         IF wire.input.token = NoToken THEN Addr("usdc") ELSE wire.input.token
    /\ wire.out.nonce.prefix = "0x"
    /\ NonceLen(wire.out.nonce) = 66
    /\ wire.out.expires_at = wire.input.t + 300

\* C27 witness: a requirement issued at 300 for a token given by the caller
\* expires at 600.
C27_IssuedForGivenToken ==
  /\ wire.kind = "issue"
  /\ wire.done
  /\ wire.input.token = OtherToken
  /\ wire.out.token = OtherToken
  /\ wire.input.t = 300
  /\ wire.out.expires_at = 600

\* payment_cache holds an entry for payment p.
Cached(p) ==
  \E i \in 1..Len(payment_cache) :
    payment_cache[i].key = <<p.signature, p.nonce>>

\* C25: with caching enabled, a verify_payment call for a payment that
\* payment_cache holds ends at once with the cached verification (the
\* transaction hash the creating call returned and stored) without drawing a
\* new hash or touching the cache; every new verification is stored under
\* its payment's key as it is returned; and payment_cache never holds two
\* entries for one payment.
C25_CachedVerification ==
  /\ [][(calls' = calls + 1 /\ cfg.cache_enabled) =>
          /\ \A t \in Tasks :
               (task[t].pc = "idle" /\ task'[t].pc # "idle") =>
                 ~Cached(task'[t].payment)
          /\ (last' # NoCall /\ Cached(last'.payment)) =>
               /\ last'.result.valid
               /\ last'.result.origin = "cache"
               /\ \E i \in 1..Len(payment_cache) :
                    /\ payment_cache[i].key =
                         <<last'.payment.signature, last'.payment.nonce>>
                    /\ payment_cache[i].verification.transaction_hash =
                         last'.result.transaction_hash
               /\ UNCHANGED <<payment_cache, tx_ctr>>]_vars
  /\ [][(tx_ctr' = tx_ctr + 1 /\ cfg.cache_enabled) =>
          \E i \in 1..Len(payment_cache') :
            /\ payment_cache'[i].key =
                 <<last'.payment.signature, last'.payment.nonce>>
            /\ payment_cache'[i].verification.transaction_hash =
                 last'.result.transaction_hash]_vars
  /\ [](\A i, j \in 1..Len(payment_cache) :
          payment_cache[i].key = payment_cache[j].key => i = j)

\* C25 witness: the second of two calls for one payment has returned the
\* verification the first created, and the cache holds one entry.
C25_SecondCallServedFromCache ==
  /\ cfg.cache_enabled
  /\ last # NoCall
  /\ last.replay
  /\ last.result.origin = "cache"
  /\ last.result.transaction_hash = 1
  /\ calls = 2
  /\ Len(payment_cache) = 1

\* C28: with a custom validation hook configured (one that refuses payer2),
\* verify_payment returns a successful verification only for a payment
\* the hook accepts; a call the hook refuses ends with code
\* CUSTOM_VALIDATION_FAILED, and that step changes neither the cache nor the
\* paid count, the revenue or the per-payer totals.
C28_CustomValidation ==
  /\ []((cfg.custom_validation /\ last # NoCall /\ last.result.valid) =>
          last.payment.from.id # "payer2")
  /\ [][\A t \in Tasks :
          (/\ task[t].pc = "custom_validation"
           /\ task'[t].pc # "custom_validation"
           /\ task[t].payment.from.id = "payer2") =>
            /\ last'.result.code = "CUSTOM_VALIDATION_FAILED"
            /\ ~last'.result.valid
            /\ UNCHANGED <<payment_cache, tx_ctr>>
            /\ analytics_data'.paid = analytics_data.paid
            /\ analytics_data'.revenue = analytics_data.revenue
            /\ analytics_data'.payers = analytics_data.payers]_vars

\* C29: verify_payment does not wait for a notification: without a custom
\* validation hook, a call that returns a new verification returns it at
\* the clock reading at which its checks ran.
C29_NotificationIsolation ==
  (/\ ~cfg.custom_validation
   /\ last # NoCall
   /\ last.result.origin = "new") =>
    last.result.timestamp = last.at

\* C30: total_requests equals the number of create_payment_requirement
\* calls (one for each 402 response and one for each request with a
\* payment); total_paid equals the number of new successful verifications
\* returned plus the calls that have passed _update_analytics and are about
\* to return one; the revenue is the sum of the per-payer totals; and a call
\* that ends without a new verification (an error or a cache hit) leaves the
\* paid count, the revenue and the per-payer totals as they were.
C30_AnalyticsCounters ==
  /\ [](/\ GetAnalytics.total_requests = Cardinality(issued) + calls
        /\ GetAnalytics.total_paid =
             tx_ctr + Cardinality({t \in Tasks : task[t].pc = "track_event"})
        /\ GetAnalytics.total_revenue =
             analytics_data.payers["payer1"] + analytics_data.payers["payer2"])
  /\ [][(/\ last = NoCall
         /\ last' # NoCall
         /\ ~(last'.result.valid /\ last'.result.origin = "new")) =>
          /\ analytics_data'.paid = analytics_data.paid
          /\ analytics_data'.revenue = analytics_data.revenue
          /\ analytics_data'.payers = analytics_data.payers]_vars

\* C30 witness: after two new verifications a call has ended with an error,
\* and the paid count is 2.
C30_FailureLeftCounters ==
  /\ last # NoCall
  /\ ~last.result.valid
  /\ tx_ctr = 2
  /\ analytics_data.paid = 2
  /\ analytics_data.requests = 4

\* The pattern at position j of a route table ends in * and the path
\* starts with the pattern without the *.
WildcardMatches(routes, j, path) ==
  /\ routes[j][Len(routes[j])] = "*"
  /\ \E n \in 0..Len(path) :
        SubSeq(path, 1, n) = SubSeq(routes[j], 1, Len(routes[j]) - 1)

\* C31: a request path is charged under the route whose pattern equals it
\* exactly, else under the first configured pattern ending in * whose
\* prefix the path starts with; a path matching no configured route passes
\* to its handler with no payment required.
C31_RouteMatching ==
  (wire.kind = "route" /\ wire.done) =>
    LET routes == wire.input.routes
        path == wire.input.path
        i == wire.out.route
        exact == {j \in 1..Len(routes) : routes[j] = path}
        wild == {j \in 1..Len(routes) : WildcardMatches(routes, j, path)}
    IN  /\ wire.out.payment_required <=> i # 0
        /\ exact # {} => i \in exact
        /\ (exact = {} /\ wild # {}) =>
              (i \in wild /\ \A j \in wild : i <= j)
        /\ (exact = {} /\ wild = {}) => i = 0

\* A path equal to the second pattern and matched by the first, a wildcard,
\* has been charged under the second.
C31_ExactBeforeWildcard ==
  /\ wire.kind = "route"
  /\ wire.done
  /\ wire.input.routes = <<(<<"/", "a", "*">>), (<<"/", "a">>)>>
  /\ wire.input.path = <<"/", "a">>
  /\ wire.out.route = 2
  /\ wire.out.payment_required

\* C32: a payment header (nonce and signature pair) that a provider of
\* src/main.py has accepted once is never accepted again by the same
\* provider, however much time passes and however the cache is cleaned in
\* between.
C32_NoReplay ==
  [][(main'.requests # main.requests /\ main'.last.accepted) =>
       main'.last.id \notin main.accepted[main'.last.provider]]_vars

\* C33: a payment gives access to a paid endpoint of src/main.py only if
\* its amount satisfies the price required for that endpoint.
C33_PriceEnforced ==
  main.last.accepted => ~(main.last.amount < MainPricing[main.last.endpoint])

\* The X-Payment header of a guarded request parses into a payment that
\* verify_payment of a freshly built provider accepts for the guard's
\* requirement.
PassesVerification(i) ==
  /\ i.x_payment.present
  /\ ModelValidatePaymentData(i.x_payment.json).ok
  /\ VerifyChecks(ModelValidatePaymentData(i.x_payment.json).data,
                  i.requirement, now) = Passed

\* C34: an endpoint protected by X402Dependency or by
\* EnhancedX402Provider.require_payment executes only for requests that
\* carry a payment which passed verification; payment headers alone never
\* grant access.
C34_GuardedEndpoints ==
  (wire.kind = "guard" /\ wire.done /\ wire.out.endpoint) =>
    /\ wire.input.guard = "X402Dependency"
    /\ PassesVerification(wire.input)

\* C35: spent_hour and spent_today increase only when the paid retry
\* returned HTTP 200, and then by exactly the requirement's amount; when
\* the retry returns any other status or fails, the counters are unchanged
\* even though a signed authorization was sent.
C35_CommitOnlyOnSuccess ==
  [][/\ \A f \in Fetches :
          (fetch[f].pc = "paid_request" /\ fetch'[f].pc = "done") =>
            /\ fetch[f].signed
            /\ IF fetch'[f].status = 200
               THEN /\ spent_hour' = spent_hour + fetch[f].amount
                    /\ spent_today' = spent_today + fetch[f].amount
               ELSE /\ spent_hour' = spent_hour
                    /\ spent_today' = spent_today
     /\ (spent_hour' > spent_hour \/ spent_today' > spent_today) =>
          \E f \in Fetches : /\ fetch[f].pc = "paid_request"
                             /\ fetch'[f].pc = "done"
                             /\ fetch'[f].status = 200]_vars

\* A paid retry has timed out after a retry that was paid: the counters
\* hold the one committed amount.
C35_FailedRetryLeftCounters ==
  \E f \in Fetches :
    /\ fetch[f].pc = "done"
    /\ fetch[f].outcome = "PaymentTimeoutError"
    /\ fetch[f].signed
    /\ fetch[f].amount = 60
    /\ spent_hour = 50
    /\ spent_today = 50

\* The call that opened the window in which the call at position n of the
\* limiter's log falls: the key's first call, and after it the key's first
\* call made once the window before has elapsed.
RECURSIVE WindowOf(_)
WindowOf(n) ==
  LET earlier == {m \in 1..(n - 1) : limiter.log[m].key = limiter.log[n].key}
  IN  IF earlier = {} THEN n
      ELSE LET m == CHOOSE x \in earlier : \A y \in earlier : y <= x
               w == WindowOf(m)
           IN  IF limiter.log[n].at < limiter.log[w].at + limiter.window_seconds
               THEN w ELSE n
\* The calls allowed before call n in the window of call n.
AllowedBefore(n) ==
  {a \in 1..(n - 1) : /\ limiter.log[a].key = limiter.log[n].key
                       /\ limiter.log[a].allowed
                       /\ WindowOf(a) = WindowOf(n)}

\* C37: for each key, is_allowed returns true for at most max_requests
\* calls within a window of window_seconds that starts at that key's first
\* counted request, returns false for every further call in that window,
\* admits the key again once the window has elapsed, and a call for one
\* key never changes the count of another key whose window is still open.
C37_RateLimiter ==
  /\ [](\A n \in 1..Len(limiter.log) :
          /\ limiter.log[n].allowed <=>
                Cardinality(AllowedBefore(n)) < limiter.max_requests
          /\ WindowOf(n) = n => limiter.log[n].allowed
          /\ Cardinality(AllowedBefore(n)) <= limiter.max_requests)
  /\ [][\A k \in DOMAIN limiter.requests :
          (/\ Len(limiter'.log) = Len(limiter.log) + 1
           /\ limiter'.log[Len(limiter'.log)].key # k
           /\ limiter.requests[k].count > 0
           /\ limiter.now - limiter.requests[k].first_request
                 < limiter.window_seconds)
            => limiter'.requests[k] = limiter.requests[k]]_vars

\* Key k1 was allowed twice and refused once inside one window, and
\* allowed again once the window had elapsed.
C37_RefusedThenAdmitted ==
  /\ Len(limiter.log) = 4
  /\ \A n \in 1..3 : limiter.log[n].key = "k1" /\ limiter.log[n].at < 60
  /\ limiter.log[1].allowed
  /\ limiter.log[2].allowed
  /\ ~limiter.log[3].allowed
  /\ limiter.log[4] = [key |-> "k1", at |-> 60, allowed |-> TRUE]

\* C38: for a payment this client submitted, wait_for_payment returns the
\* payment's final status as soon as the facilitator reports it completed
\* or failed within the timeout, and raises TimeoutError only when the
\* facilitator reported no final status during the whole timeout: a check
\* made after the facilitator settled the payment ends the wait.
C38_PaymentPolling ==
  (poll.wait.pc \in {"sleep", "TimeoutError"} /\ poll.status \in FinalStatuses)
    => ~(poll.settled_at < poll.wait.checked_at)

\* C36: spent_today and spent_hour are set back to zero only by the window
\* rollover inside the limit check; no other task or method of the client
\* resets them, so the total committed inside one day window never exceeds
\* per_day.
C36_SpendStateOwnership ==
  /\ [][/\ spent_today' < spent_today => last_day_reset' # last_day_reset
        /\ spent_hour' < spent_hour => last_hour_reset' # last_hour_reset]_vars
  /\ [](spent_today <= SpendingLimits.per_day)

\* The amount batch_pay_and_fetch has paid through the call in slot f.
BatchPaid(f) ==
  IF \E r \in batch.results : r.call = f /\ r.outcome = "paid"
  THEN (CHOOSE r \in batch.results : r.call = f /\ r.outcome = "paid").amount
  ELSE 0

\* C39: when batch_pay_and_fetch is called with max_total, the sum of the
\* amounts paid by the calls it launches never exceeds max_total, and the
\* concurrently launched calls together never push spent_hour or
\* spent_today above their limits.
C39_BatchBudget ==
  batch.pc \in {"gather", "returned"} =>
    /\ batch.max_total # NoMax =>
          BatchPaid("f1") + BatchPaid("f2") <= batch.max_total
    /\ spent_hour <= SpendingLimits.per_hour
    /\ spent_today <= SpendingLimits.per_day

====
